---- MODULE Spec2Model ----
(***************************************************************************)
(* Build-log failure triage pipeline of                                    *)
(* resources/lab-1-solutions/04_hybrid_approach.py (detector, clusterer,   *)
(* section extractor, categoriser, prompt builder, response validator,     *)
(* fallback) and of resources/slackbot/src/slackbot/build_analysis.py.     *)
(*                                                                         *)
(* Text is modelled character by character: a Python str is a TLA+ string, *)
(* indexed with SubSeq, and every regular expression of the source is      *)
(* translated into a search over the characters of its subject.            *)
(***************************************************************************)
EXTENDS Integers, Sequences, FiniteSets, TLC

(***************************************************************************)
(* Characters and strings                                                  *)
(***************************************************************************)

\* s[i], 1-based; the empty string when i is outside s
Ch(s, i) == IF i >= 1 /\ i <= Len(s) THEN SubSeq(s, i, i) ELSE ""

UpperAlpha == "ABCDEFGHIJKLMNOPQRSTUVWXYZ"
LowerAlpha == "abcdefghijklmnopqrstuvwxyz"
DigitChars == {"0", "1", "2", "3", "4", "5", "6", "7", "8", "9"}
UpperSet == {Ch(UpperAlpha, i) : i \in 1..Len(UpperAlpha)}
LowerSet == {Ch(LowerAlpha, i) : i \in 1..Len(LowerAlpha)}

\* str.strip() and the regex class \s: the whitespace a log line or a
\* response can hold here.
Whitespace == {" ", "\t", "\n", "\r", "\f"}
IsSpace(c) == c \in Whitespace

\* the regex class \w
IsWordCh(c) == c \in UpperSet \cup LowerSet \cup DigitChars \cup {"_"}

ToLowerTable ==
    [c \in UpperSet |->
        Ch(LowerAlpha, CHOOSE i \in 1..Len(UpperAlpha) : Ch(UpperAlpha, i) = c)]

ToLowerCh(c) == IF c \in UpperSet THEN ToLowerTable[c] ELSE c

RECURSIVE Lower(_)
\* str.lower(); also the subject of a re.IGNORECASE search, whose literals
\* are all lower case in the source.
Lower(s) ==
    IF Len(s) = 0 THEN ""
    ELSE ToLowerCh(Ch(s, 1)) \o Lower(SubSeq(s, 2, Len(s)))

RECURSIVE LStrip(_)
LStrip(s) ==
    IF Len(s) > 0 /\ IsSpace(Ch(s, 1)) THEN LStrip(SubSeq(s, 2, Len(s))) ELSE s

RECURSIVE RStrip(_)
RStrip(s) ==
    IF Len(s) > 0 /\ IsSpace(Ch(s, Len(s)))
    THEN RStrip(SubSeq(s, 1, Len(s) - 1)) ELSE s

\* str.strip()
Strip(s) == RStrip(LStrip(s))

RECURSIVE JoinFrom(_, _, _)
JoinFrom(sep, strs, i) ==
    IF i > Len(strs) THEN ""
    ELSE IF i = Len(strs) THEN strs[i]
    ELSE strs[i] \o sep \o JoinFrom(sep, strs, i + 1)

\* sep.join(strs)
Join(sep, strs) == JoinFrom(sep, strs, 1)

\* s[:n] of a str
Prefix(s, n) == SubSeq(s, 1, IF n < Len(s) THEN n ELSE Len(s))

RECURSIVE Digits(_)
\* len(str(n)) for n >= 0
Digits(n) == IF n < 10 THEN 1 ELSE 1 + Digits(n \div 10)

Max(a, b) == IF a >= b THEN a ELSE b
Min(a, b) == IF a <= b THEN a ELSE b

(***************************************************************************)
(* Regular-expression pieces                                               *)
(***************************************************************************)

\* the literal lit occupies s[i .. i+len(lit)-1]
LitAt(s, i, lit) ==
    /\ i >= 1
    /\ i + Len(lit) - 1 <= Len(s)
    /\ SubSeq(s, i, i + Len(lit) - 1) = lit

\* \b between s[p-1] and s[p]
WordB(s, p) ==
    LET before == p > 1 /\ p - 1 <= Len(s) /\ IsWordCh(Ch(s, p - 1))
        after == p >= 1 /\ p <= Len(s) /\ IsWordCh(Ch(s, p))
    IN  before /= after

\* s[a..b] is all whitespace (empty range: true)
AllSpace(s, a, b) == \A k \in a..b : IsSpace(Ch(s, k))

\* [:]?\s{minSp,}(.+) matched right after position e (optColon: whether the
\* pattern has the [:]? at all); "." is any character but a newline.
ReTail(s, e, optColon, minSp) ==
    \E c \in (IF optColon THEN {0, 1} ELSE {0}) :
        /\ c = 1 => (e + 1 <= Len(s) /\ Ch(s, e + 1) = ":")
        /\ \E j \in minSp..(Len(s) - e - c) :
              /\ AllSpace(s, e + c + 1, e + c + j)
              /\ e + c + j + 1 <= Len(s)
              /\ Ch(s, e + c + j + 1) /= "\n"

\* re.search of \b<lit>\s+(.+)
SearchLitSpAny(s, lit) ==
    \E i \in 1..Len(s) :
        LitAt(s, i, lit) /\ WordB(s, i) /\ ReTail(s, i + Len(lit) - 1, FALSE, 1)

\* re.search of \b<lit>\b[:]?\s*(.+)
SearchLitBColonAny(s, lit) ==
    \E i \in 1..Len(s) :
        /\ LitAt(s, i, lit) /\ WordB(s, i) /\ WordB(s, i + Len(lit))
        /\ ReTail(s, i + Len(lit) - 1, TRUE, 0)

\* re.search of \b<lit>\b
SearchWord(s, lit) ==
    \E i \in 1..Len(s) :
        LitAt(s, i, lit) /\ WordB(s, i) /\ WordB(s, i + Len(lit))

\* re.search of <lit>
Contains(s, lit) == \E i \in 1..Len(s) : LitAt(s, i, lit)

(***************************************************************************)
(* Error Detector: match_error, find_error_indices                         *)
(***************************************************************************)

\* \bld:\s+cannot find\s+(.+)
SearchLdCannotFind(s) ==
    \E i \in 1..Len(s) :
        /\ LitAt(s, i, "ld:") /\ WordB(s, i)
        /\ \E j \in 1..Len(s) :
              /\ AllSpace(s, i + 3, i + 2 + j)
              /\ LitAt(s, i + 3 + j, "cannot find")
              /\ ReTail(s, i + 2 + j + Len("cannot find"), FALSE, 1)

\* \bcannot find\s+(-l\S+|\S+)
SearchCannotFindArg(s) ==
    \E i \in 1..Len(s) :
        /\ LitAt(s, i, "cannot find") /\ WordB(s, i)
        /\ \E j \in 1..Len(s) :
              LET a == i + Len("cannot find") + j IN
              /\ AllSpace(s, i + Len("cannot find"), a - 1)
              /\ \/ LitAt(s, a, "-l") /\ a + 2 <= Len(s) /\ ~IsSpace(Ch(s, a + 2))
                 \/ a <= Len(s) /\ ~IsSpace(Ch(s, a))

\* ERROR_PATTERNS, each searched with re.IGNORECASE in the stripped line
ERROR_PATTERNS(ll) ==
    \/ SearchLitSpAny(ll, "error:")
    \/ SearchLitSpAny(ll, "fatal:")
    \/ SearchLitSpAny(ll, "undefined reference to")
    \/ SearchLitSpAny(ll, "undefined symbol:")
    \/ SearchLdCannotFind(ll)
    \/ SearchCannotFindArg(ll)
    \/ SearchWord(ll, "no rule to make target")
    \/ SearchLitBColonAny(ll, "cmake error")
    \/ SearchLitBColonAny(ll, "configuration error")

match_error(line) ==
    LET ls == Strip(line)
        ll == Lower(ls)
    IN  \/ ERROR_PATTERNS(ll)
        \/ /\ SearchWord(ls, "FAILED") \/ SearchWord(ls, "FAILURE")
           /\ \/ Contains(ll, "test") \/ Contains(ll, "target")
              \/ Contains(ll, "build") \/ Contains(ll, "link")

RECURSIVE PerRuleLoop(_, _)
\* the loop of a detector that appends a line once for every rule of
\* ERROR_PATTERNS it matches; of the rules the two "cannot find" ones suffice
PerRuleLoop(lines, i) ==
    IF i > Len(lines) THEN <<>>
    ELSE LET ll == Lower(Strip(lines[i]))
             both == SearchLdCannotFind(ll) /\ SearchCannotFindArg(ll)
         IN  (IF match_error(lines[i]) THEN <<i>> ELSE <<>>)
             \o (IF both THEN <<i>> ELSE <<>>)
             \o PerRuleLoop(lines, i + 1)

find_error_indices_per_rule(lines) == PerRuleLoop(lines, 1)

\* the 1-based numbers of the matching lines, in order
find_error_indices(lines) ==
    SelectSeq([i \in 1..Len(lines) |-> i], LAMBDA i : match_error(lines[i]))

(***************************************************************************)
(* Clusterer: cluster_indices                                              *)
(***************************************************************************)

Last(q) == q[Len(q)]

RECURSIVE ClusterLoopAnchored(_, _, _, _)
\* a loop that measures the gap from the first line of the current cluster
\* instead of its last: the clusterer the window rule would need if it spoke
\* of any two lines
ClusterLoopAnchored(indices, k, clusters, window) ==
    IF k > Len(indices) THEN clusters
    ELSE LET n == indices[k]
             cur == Last(clusters)
         IN  IF n - cur[1] <= window
             THEN ClusterLoopAnchored(indices, k + 1,
                     [clusters EXCEPT ![Len(clusters)] = Append(cur, n)], window)
             ELSE ClusterLoopAnchored(indices, k + 1, Append(clusters, <<n>>), window)

RECURSIVE ClusterLoop(_, _, _, _)
\* the loop "for n in indices[1:]" from position k on
ClusterLoop(indices, k, clusters, window) ==
    IF k > Len(indices) THEN clusters
    ELSE LET n == indices[k]
             cur == Last(clusters)
         IN  IF n - Last(cur) <= window
             THEN ClusterLoop(indices, k + 1,
                     [clusters EXCEPT ![Len(clusters)] = Append(cur, n)], window)
             ELSE ClusterLoop(indices, k + 1, Append(clusters, <<n>>), window)

cluster_indices(indices, window) ==
    IF indices = <<>> THEN <<>>
    ELSE ClusterLoop(indices, 2, <<(<<indices[1]>>)>>, window)

(***************************************************************************)
(* Section Extractor: slice_with_context, extract_sections                 *)
(***************************************************************************)

SeqMin(q) == CHOOSE m \in {q[i] : i \in 1..Len(q)} : \A i \in 1..Len(q) : m <= q[i]
SeqMax(q) == CHOOSE m \in {q[i] : i \in 1..Len(q)} : \A i \in 1..Len(q) : m >= q[i]

\* lines[max(1,start)-1 : min(len(lines), end)]
slice_with_context(lines, start, end) ==
    SubSeq(lines, Max(1, start), Min(Len(lines), end))

\* chunk[: max(1, len(chunk)//2)]
HalfChunk(chunk) == SubSeq(chunk, 1, Min(Len(chunk), Max(1, Len(chunk) \div 2)))

RECURSIVE ExtractLoop(_, _, _, _, _, _, _, _)
\* the loop "for c in clusters[:max_sections]" from cluster k on; acc is
\* (sections, total_chars) so far
ExtractLoop(lines, clusters, k, ctx, max_sections, max_chars, sections, total_chars) ==
    IF k > Len(clusters) \/ k > max_sections
    THEN [sections |-> sections, total_chars |-> total_chars]
    ELSE LET c == clusters[k]
             lo == SeqMin(c) - ctx
             hi == SeqMax(c) + ctx
             chunk == slice_with_context(lines, lo, hi)
             chunk_text == Strip(Join("\n", chunk))
             head_line_no == SeqMin(c)
             head_line == Strip(lines[head_line_no])
             sec == [line_number |-> head_line_no,
                     headline |-> head_line,
                     lines |-> chunk]
             truncated == Join("\n", HalfChunk(chunk))
         IN  IF total_chars + Len(chunk_text) > max_chars
             THEN IF total_chars + Len(truncated) > max_chars
                  THEN [sections |-> sections, total_chars |-> total_chars]
                  ELSE ExtractLoop(lines, clusters, k + 1, ctx, max_sections, max_chars,
                          Append(sections, [sec EXCEPT !.lines = HalfChunk(chunk)]),
                          total_chars + Len(truncated))
             ELSE ExtractLoop(lines, clusters, k + 1, ctx, max_sections, max_chars,
                     Append(sections, sec), total_chars + Len(chunk_text))

\* an extractor that attempts every cluster, whatever max_sections is
extract_sections_uncapped(lines, clusters, ctx, max_sections, max_chars) ==
    ExtractLoop(lines, clusters, 1, ctx, Len(clusters), max_chars, <<>>, 0)

extract_sections(lines, clusters, ctx, max_sections, max_chars) ==
    ExtractLoop(lines, clusters, 1, ctx, max_sections, max_chars, <<>>, 0)

(***************************************************************************)
(* Categoriser: CATEGORY_RULES, categorise_section, categorise_sections    *)
(***************************************************************************)

\* the class [A-Za-z0-9_\-]
IsLibCh(c) == IsWordCh(c) \/ c = "-"

\* \b(ld: )?cannot find\b|\b-l[A-Za-z0-9_\-]+\b
RuleLinkerMissing(s) ==
    \/ \E i \in 1..Len(s) :
          /\ WordB(s, i)
          /\ \/ LitAt(s, i, "ld: cannot find") /\ WordB(s, i + Len("ld: cannot find"))
             \/ LitAt(s, i, "cannot find") /\ WordB(s, i + Len("cannot find"))
    \/ \E i \in 1..Len(s) :
          /\ WordB(s, i)
          /\ LitAt(s, i, "-l")
          /\ \E k \in 1..Len(s) :
                /\ i + 1 + k <= Len(s)
                /\ \A m \in (i + 2)..(i + 1 + k) : IsLibCh(Ch(s, m))
                /\ WordB(s, i + 2 + k)

\* \bundefined reference\b|\bundefined symbol\b
RuleLinkerUndefined(s) ==
    SearchWord(s, "undefined reference") \/ SearchWord(s, "undefined symbol")

\* \bcmake error\b|\bno rule to make target\b|\bconfiguration error\b
RuleCmakeConfig(s) ==
    \/ SearchWord(s, "cmake error")
    \/ SearchWord(s, "no rule to make target")
    \/ SearchWord(s, "configuration error")

RECURSIVE SkipSpaces(_, _)
\* the first position from i on that holds no whitespace
SkipSpaces(s, i) == IF IsSpace(Ch(s, i)) THEN SkipSpaces(s, i + 1) ELSE i

RECURSIVE SkipDigits(_, _)
\* the first position from i on that holds no digit
SkipDigits(s, i) == IF Ch(s, i) \in DigitChars THEN SkipDigits(s, i + 1) ELSE i

\* ^\s*\d+\s*errors? generated\b  (no re.MULTILINE: ^ is the start of the
\* text).  Whitespace, digits and "e" exclude one another, so each run is
\* matched whole.
ErrorsGeneratedAtStart(s) ==
    LET d == SkipSpaces(s, 1)
        e == SkipSpaces(s, SkipDigits(s, d))
    IN  /\ SkipDigits(s, d) > d
        /\ \/ LitAt(s, e, "errors generated") /\ WordB(s, e + Len("errors generated"))
           \/ LitAt(s, e, "error generated") /\ WordB(s, e + Len("error generated"))

\* \berror:\b|^\s*\d+\s*errors? generated\b
RuleCompilation(s) == SearchWord(s, "error:") \/ ErrorsGeneratedAtStart(s)

\* a categoriser in which the last matching rule wins
categorise_section_last_match(text) ==
    IF RuleCompilation(text) THEN "compilation"
    ELSE IF RuleCmakeConfig(text) THEN "cmake_config"
    ELSE IF RuleLinkerUndefined(text) THEN "linker_undefined"
    ELSE IF RuleLinkerMissing(text) THEN "linker_missing"
    ELSE "other"

\* first matching rule of CATEGORY_RULES, in order; "other" when none
categorise_section(text) ==
    IF RuleLinkerMissing(text) THEN "linker_missing"
    ELSE IF RuleLinkerUndefined(text) THEN "linker_undefined"
    ELSE IF RuleCmakeConfig(text) THEN "cmake_config"
    ELSE IF RuleCompilation(text) THEN "compilation"
    ELSE "other"

SectionCategory(sec) == categorise_section(Join("\n", sec.lines))

\* buckets: category -> the sections of that category, in order
categorise_sections(sections) ==
    [cat \in {SectionCategory(sections[i]) : i \in 1..Len(sections)} |->
        SelectSeq(sections, LAMBDA sec : SectionCategory(sec) = cat)]

\* counts = {k: len(v) for k, v in cat.items() if v}
CategoryCounts(buckets) ==
    [cat \in {k \in DOMAIN buckets : Len(buckets[k]) > 0} |-> Len(buckets[cat])]

(***************************************************************************)
(* Prompt Builder: extract_build_info, make_prompt                         *)
(***************************************************************************)

BuildInfoKeys == <<"component", "build_id", "compiler", "branch", "runner">>

\* the literal of the pattern of each key of "pairs", lower case
BuildInfoLiteral(k) ==
    CASE k = "component" -> "component:"
      [] k = "build_id" -> "build id:"
      [] k = "compiler" -> "compiler:"
      [] k = "branch" -> "branch:"
      [] k = "runner" -> "runner:"

\* re.search(r"\b<lit>\s*(.+)", line, re.I) and, when it matches,
\* m.group(1).strip() of the leftmost match
BuildInfoAt(line, lit) ==
    LET ll == Lower(line)
        m == {i \in 1..Len(line) :
                 /\ LitAt(ll, i, lit) /\ WordB(line, i)
                 /\ ReTail(line, i + Len(lit) - 1, FALSE, 0)}
    IN  IF m = {} THEN [found |-> FALSE, value |-> ""]
        ELSE LET i == CHOOSE i \in m : \A j \in m : i <= j
             IN  [found |-> TRUE, value |-> Strip(SubSeq(line, i + Len(lit), Len(line)))]

RECURSIVE FirstBuildInfo(_, _, _)
\* the first header line from n on that matches the pattern of lit
FirstBuildInfo(header, n, lit) ==
    IF n > Len(header) THEN [found |-> FALSE, value |-> ""]
    ELSE LET r == BuildInfoAt(header[n], lit) IN
         IF r.found THEN r ELSE FirstBuildInfo(header, n + 1, lit)

\* info: key -> value of the first header line (lines[:40]) that matches
extract_build_info(lines) ==
    LET header == SubSeq(lines, 1, Min(Len(lines), 40))
        res == [i \in 1..Len(BuildInfoKeys) |->
                   FirstBuildInfo(header, 1, BuildInfoLiteral(BuildInfoKeys[i]))]
        found == {i \in 1..Len(BuildInfoKeys) : res[i].found}
    IN  [k \in {BuildInfoKeys[i] : i \in found} |->
            res[CHOOSE i \in found : BuildInfoKeys[i] = k].value]

\* the fixed text of make_prompt: the 22 lines of "header" before the build
\* info, the 3 lines added after it, and the 2 footer entries
HeaderLines == 22
HeaderChars == 649
SectionsBannerLines == 3
SectionsBannerChars == 75
FooterLines == 2
FooterChars == 127

RECURSIVE SumOver(_, _)
\* sum of f[x] over the finite set S
SumOver(f, S) ==
    IF S = {} THEN 0
    ELSE LET x == CHOOSE x \in S : TRUE IN f[x] + SumOver(f, S \ {x})

\* the entries make_prompt adds to body_lines for section number i:
\* "\n--- Error Section {i} ---", "Line {n}: {headline}", "\nContext:" and
\* one "  {t}" for each context line
SectionEntries(sec) == 3 + Len(sec.lines)
SectionEntryChars(sec, i) ==
    (Len("\n--- Error Section ") + Digits(i) + Len(" ---"))
    + (Len("Line ") + Digits(sec.line_number) + Len(": ") + Len(sec.headline))
    + Len("\nContext:")
    + SumOver([n \in 1..Len(sec.lines) |-> Len("  ") + Len(sec.lines[n])],
              1..Len(sec.lines))

\* len(make_prompt(sections, build_info)): the characters of all entries
\* plus one "\n" between consecutive entries
make_prompt_chars(sections, build_info) ==
    LET infoEntries == Cardinality(DOMAIN build_info)
        infoChars == SumOver([k \in DOMAIN build_info |->
                                 Len("- ") + Len(k) + Len(": ") + Len(build_info[k])],
                             DOMAIN build_info)
        secIdx == 1..Len(sections)
        bodyEntries == SumOver([i \in secIdx |-> SectionEntries(sections[i])], secIdx)
        bodyChars == SumOver([i \in secIdx |-> SectionEntryChars(sections[i], i)], secIdx)
        entries == HeaderLines + infoEntries + SectionsBannerLines + bodyEntries + FooterLines
    IN  HeaderChars + infoChars + SectionsBannerChars + bodyChars + FooterChars
        + (entries - 1)

(***************************************************************************)
(* JSON values and json.loads                                              *)
(* A value is [t |-> tag, v |-> payload]; a dict is the sequence of its    *)
(* (key, value) items in insertion order.                                  *)
(***************************************************************************)

JNull == [t |-> "null", v |-> 0]
JBool(b) == [t |-> "bool", v |-> b]
JNum(n) == [t |-> "num", v |-> n]
JStr(s) == [t |-> "str", v |-> s]
JArr(items) == [t |-> "arr", v |-> items]
JObj(items) == [t |-> "obj", v |-> items]
Item(k, val) == [k |-> k, val |-> val]

\* k in d
DictHas(d, k) == \E i \in 1..Len(d.v) : d.v[i].k = k
\* d[k]
DictGet(d, k) == d.v[CHOOSE i \in 1..Len(d.v) : d.v[i].k = k].val
\* d[k] = val on the item list
DictPut(items, k, val) ==
    IF \E i \in 1..Len(items) : items[i].k = k
    THEN [i \in 1..Len(items) |-> IF items[i].k = k THEN Item(k, val) ELSE items[i]]
    ELSE Append(items, Item(k, val))

JsonWs == {" ", "\t", "\n", "\r"}

RECURSIVE SkipWs(_, _)
SkipWs(s, i) == IF Ch(s, i) \in JsonWs THEN SkipWs(s, i + 1) ELSE i

ParseFail == [ok |-> FALSE, val |-> JNull, pos |-> 0]
\* the scanner raised something that is no JSONDecodeError
ParseRaised == [ok |-> FALSE, val |-> [t |-> "raised", v |-> 0], pos |-> 0]
ParseOk(val, pos) == [ok |-> TRUE, val |-> val, pos |-> pos]

DigitVal(c) == CHOOSE n \in 0..9 : Ch("0123456789", n + 1) = c

RECURSIVE ScanDigits(_, _, _)
\* the run of digits from position i on, as (value, next position)
ScanDigits(s, i, acc) ==
    IF Ch(s, i) \in DigitChars
    THEN ScanDigits(s, i + 1, 10 * acc + DigitVal(Ch(s, i)))
    ELSE [n |-> acc, pos |-> i]

\* int() of a digit string: more than this many digits raise ValueError
\* (sys.int_info.default_max_str_digits of the interpreter)
IntMaxStrDigits == 4300

\* at least IntMaxStrDigits + 1 digits stand from position d on
TooManyDigits(s, d) ==
    /\ d + IntMaxStrDigits <= Len(s)
    /\ \A j \in d..(d + IntMaxStrDigits) : Ch(s, j) \in DigitChars

\* an integer literal -?(0|[1-9][0-9]*); the model's texts hold no fraction
\* and no exponent
ParseNumber(s, i) ==
    LET neg == Ch(s, i) = "-"
        d == IF neg THEN i + 1 ELSE i
    IN  IF Ch(s, d) \notin DigitChars THEN ParseFail
        ELSE IF Ch(s, d) = "0" THEN ParseOk(JNum(0), d + 1)
        ELSE IF TooManyDigits(s, d) THEN ParseRaised
        ELSE LET r == ScanDigits(s, d, 0)
             IN  ParseOk(JNum(IF neg THEN 0 - r.n ELSE r.n), r.pos)

RECURSIVE ScanString(_, _, _)
\* the characters of a string literal whose opening quote is before i
ScanString(s, i, acc) ==
    LET c == Ch(s, i) IN
    IF c = "" \/ c \in {"\n", "\t", "\r", "\f"} THEN ParseFail
    ELSE IF c = "\"" THEN ParseOk(JStr(acc), i + 1)
    ELSE IF c = "\\"
         THEN LET e == Ch(s, i + 1) IN
              IF e \in {"\"", "\\", "/"} THEN ScanString(s, i + 2, acc \o e)
              ELSE IF e = "n" THEN ScanString(s, i + 2, acc \o "\n")
              ELSE IF e = "t" THEN ScanString(s, i + 2, acc \o "\t")
              ELSE IF e = "r" THEN ScanString(s, i + 2, acc \o "\r")
              ELSE ParseFail
    ELSE ScanString(s, i + 1, acc \o c)

RECURSIVE ParseValue(_, _)
RECURSIVE ParseArrayItems(_, _, _)
RECURSIVE ParseObjectItems(_, _, _)

\* the items of an array after "[" or ",": value, then "," or "]"
ParseArrayItems(s, i, acc) ==
    LET r == ParseValue(s, i) IN
    IF ~r.ok THEN r
    ELSE LET j == SkipWs(s, r.pos)
             items == Append(acc, r.val)
         IN  IF Ch(s, j) = "," THEN ParseArrayItems(s, j + 1, items)
             ELSE IF Ch(s, j) = "]" THEN ParseOk(JArr(items), j + 1)
             ELSE ParseFail

\* the items of an object after "{" or ",": "key" : value, then "," or "}"
ParseObjectItems(s, i, acc) ==
    LET j == SkipWs(s, i) IN
    IF Ch(s, j) /= "\"" THEN ParseFail
    ELSE LET key == ScanString(s, j + 1, "") IN
         IF ~key.ok THEN ParseFail
         ELSE LET c == SkipWs(s, key.pos) IN
              IF Ch(s, c) /= ":" THEN ParseFail
              ELSE LET r == ParseValue(s, c + 1) IN
                   IF ~r.ok THEN r
                   ELSE LET e == SkipWs(s, r.pos)
                            items == DictPut(acc, key.val.v, r.val)
                        IN  IF Ch(s, e) = "," THEN ParseObjectItems(s, e + 1, items)
                            ELSE IF Ch(s, e) = "}" THEN ParseOk(JObj(items), e + 1)
                            ELSE ParseFail

ParseValue(s, i) ==
    LET j == SkipWs(s, i)
        c == Ch(s, j)
    IN  IF c = "{"
        THEN IF Ch(s, SkipWs(s, j + 1)) = "}"
             THEN ParseOk(JObj(<<>>), SkipWs(s, j + 1) + 1)
             ELSE ParseObjectItems(s, j + 1, <<>>)
        ELSE IF c = "["
        THEN IF Ch(s, SkipWs(s, j + 1)) = "]"
             THEN ParseOk(JArr(<<>>), SkipWs(s, j + 1) + 1)
             ELSE ParseArrayItems(s, j + 1, <<>>)
        ELSE IF c = "\"" THEN ScanString(s, j + 1, "")
        ELSE IF LitAt(s, j, "null") THEN ParseOk(JNull, j + 4)
        ELSE IF LitAt(s, j, "true") THEN ParseOk(JBool(TRUE), j + 4)
        ELSE IF LitAt(s, j, "false") THEN ParseOk(JBool(FALSE), j + 5)
        ELSE ParseNumber(s, j)

\* json.loads(s): [ok, val, raised]; ok is FALSE where json.loads raises:
\* JSONDecodeError (no value, or extra data after it) when raised is FALSE,
\* the ValueError of int() when raised is TRUE
json_loads(s) ==
    LET r == ParseValue(s, 1) IN
    IF r.ok /\ SkipWs(s, r.pos) = Len(s) + 1
    THEN [ok |-> TRUE, val |-> r.val, raised |-> FALSE]
    ELSE [ok |-> FALSE, val |-> JNull, raised |-> (~r.ok /\ r.val.t = "raised")]

(***************************************************************************)
(* Response Validator: extract_json_block, valid_schema, parse_llm_response*)
(***************************************************************************)

\* s.find(c): the first position of character c in s, 0 when absent
Find(s, c) ==
    IF \E i \in 1..Len(s) : Ch(s, i) = c
    THEN CHOOSE i \in 1..Len(s) : Ch(s, i) = c /\ \A j \in 1..(i - 1) : Ch(s, j) /= c
    ELSE 0

RECURSIVE BracketScan(_, _, _, _, _)
\* the loop "for i in range(start, len(s))" of extract_json_block, stepping
\* over the characters that are no bracket (the loop does nothing on them):
\* at is the list of the positions of "{", "[", "}", "]" from start on, n the
\* next one to look at
BracketScan(s, start, at, n, stack) ==
    IF n > Len(at) THEN ""
    ELSE LET ch == Ch(s, at[n]) IN
         IF ch \in {"{", "["}
         THEN BracketScan(s, start, at, n + 1, Append(stack, IF ch = "{" THEN "}" ELSE "]"))
         ELSE IF stack = <<>> \/ ch /= Last(stack)
         THEN BracketScan(s, start, at, n + 1, stack)
         ELSE IF Len(stack) = 1
         THEN SubSeq(s, start, at[n])
         ELSE BracketScan(s, start, at, n + 1, SubSeq(stack, 1, Len(stack) - 1))

extract_json_block(s) ==
    LET start == IF Find(s, "{") /= 0 THEN Find(s, "{") ELSE Find(s, "[") IN
    IF start = 0 THEN ""
    ELSE LET at == SelectSeq([k \in 1..(Len(s) - start + 1) |-> start + k - 1],
                             LAMBDA p : Ch(s, p) \in {"{", "[", "}", "]"})
         IN  BracketScan(s, start, at, 1, <<>>)

\* SCHEMA: both keys must be present with a list value
SchemaKeys == {"root_causes", "summary"}

\* a schema check that does not look at evidence
valid_schema_without_evidence(obj) ==
    /\ obj.t = "obj"
    /\ \A k \in SchemaKeys : DictHas(obj, k) /\ DictGet(obj, k).t = "arr"
    /\ \A i \in 1..Len(DictGet(obj, "root_causes").v) :
          LET rc == DictGet(obj, "root_causes").v[i] IN
          /\ rc.t = "obj"
          /\ DictHas(rc, "cause") /\ DictHas(rc, "confidence") /\ DictHas(rc, "next_action")

valid_schema(obj) ==
    /\ obj.t = "obj"
    /\ \A k \in SchemaKeys : DictHas(obj, k) /\ DictGet(obj, k).t = "arr"
    /\ \A i \in 1..Len(DictGet(obj, "root_causes").v) :
          LET rc == DictGet(obj, "root_causes").v[i] IN
          /\ rc.t = "obj"
          /\ DictHas(rc, "cause") /\ DictHas(rc, "confidence") /\ DictHas(rc, "next_action")
          /\ DictHas(rc, "evidence")
          /\ DictGet(rc, "evidence").t = "arr"
          /\ Len(DictGet(rc, "evidence").v) > 0

StartsWithBracket(s) == Ch(s, 1) \in {"{", "["}

\* (json_obj, error_msg); the empty dict on failure, error_msg "" on success;
\* raised when an exception other than JSONDecodeError leaves json.loads,
\* which "except json.JSONDecodeError" lets through
parse_llm_response(raw) ==
    IF raw = "" THEN [obj |-> JObj(<<>>), err |-> "empty response", raised |-> FALSE]
    ELSE LET stripped == Strip(raw)
             candidate == IF StartsWithBracket(stripped) THEN stripped
                          ELSE extract_json_block(stripped)
         IN  IF candidate = ""
             THEN [obj |-> JObj(<<>>), err |-> "no json block found", raised |-> FALSE]
             ELSE LET r == json_loads(candidate) IN
                  IF r.raised
                  THEN [obj |-> JNull, err |-> "uncaught ValueError", raised |-> TRUE]
                  ELSE IF ~r.ok
                  THEN [obj |-> JObj(<<>>), err |-> "json decode error", raised |-> FALSE]
                  ELSE IF ~valid_schema(r.val)
                  THEN [obj |-> JObj(<<>>), err |-> "schema validation failed",
                        raised |-> FALSE]
                  ELSE [obj |-> r.val, err |-> "", raised |-> FALSE]

(***************************************************************************)
(* Fallback (run, the "if err:" branch)                                    *)
(***************************************************************************)

\* re.search(r"\berror\b|undefined|cannot find|cmake", t, re.I)
FallbackHint(t) ==
    LET ll == Lower(t) IN
    \/ SearchWord(ll, "error") \/ Contains(ll, "undefined")
    \/ Contains(ll, "cannot find") \/ Contains(ll, "cmake")

\* heads = [s["headline"] for s in sections if s.get("headline")]
Heads(sections) ==
    LET kept == SelectSeq(sections, LAMBDA sec : sec.headline /= "")
    IN  [i \in 1..Len(kept) |-> kept[i].headline]

CountOf(heads, h) == Cardinality({i \in 1..Len(heads) : heads[i] = h})
FirstAt(heads, h) == CHOOSE i \in 1..Len(heads) :
                         heads[i] = h /\ \A j \in 1..(i - 1) : heads[j] /= h

RECURSIVE MostCommon(_, _, _)
\* Counter(heads).most_common(n): by count, ties in order of first occurrence
MostCommon(heads, rest, n) ==
    IF n = 0 \/ rest = {} THEN <<>>
    ELSE LET best == CHOOSE h \in rest : \A g \in rest :
                         \/ CountOf(heads, h) > CountOf(heads, g)
                         \/ /\ CountOf(heads, h) = CountOf(heads, g)
                            /\ FirstAt(heads, h) <= FirstAt(heads, g)
         IN  <<best>> \o MostCommon(heads, rest \ {best}, n - 1)

FallbackNextAction == "Re-run with stricter prompt or inspect deterministic section."

\* a fallback root cause that names no next action
FallbackCauseWithoutAction(sections, cause) ==
    LET sec == sections[CHOOSE i \in 1..Len(sections) :
                   sections[i].headline = cause
                   /\ \A j \in 1..(i - 1) : sections[j].headline /= cause]
    IN  JObj(<<Item("cause", JStr(Prefix(cause, 120))),
              Item("evidence", JArr(<<JObj(<<Item("line", JNum(sec.line_number)),
                                             Item("snippet", JStr(Prefix(sec.headline, 200)))>>)>>)),
              Item("confidence", JStr("low"))>>)

\* the root cause built for one headline
FallbackCause(sections, cause) ==
    LET sec == sections[CHOOSE i \in 1..Len(sections) :
                   sections[i].headline = cause
                   /\ \A j \in 1..(i - 1) : sections[j].headline /= cause]
        hits == {n \in 1..Len(sec.lines) : FallbackHint(sec.lines[n])}
        first == CHOOSE n \in hits : \A m \in hits : n <= m
        ev == IF hits = {} THEN <<>>
              ELSE <<JObj(<<Item("line", JNum(sec.line_number + (first - 1))),
                           Item("snippet", JStr(Prefix(Strip(sec.lines[first]), 200)))>>)>>
        evidence == IF ev /= <<>> THEN ev
                    ELSE <<JObj(<<Item("line", JNum(sec.line_number)),
                                 Item("snippet", JStr(Prefix(sec.headline, 200)))>>)>>
    IN  JObj(<<Item("cause", JStr(Prefix(cause, 120))),
              Item("evidence", JArr(evidence)),
              Item("confidence", JStr("low")),
              Item("next_action", JStr(FallbackNextAction))>>)

FallbackSummary ==
    <<"AI output invalid; using deterministic fallback.",
      "Inspect sections.json for evidence.",
      "Re-run with a JSON-enforcing model or smaller prompt.">>

StrArr(strs) == JArr([i \in 1..Len(strs) |-> JStr(strs[i])])

\* obj of the "if err:" branch
fallback_result(sections) ==
    LET heads == Heads(sections)
        freq == MostCommon(heads, {heads[i] : i \in 1..Len(heads)}, 3)
    IN  JObj(<<Item("root_causes",
                    JArr([i \in 1..Len(freq) |-> FallbackCause(sections, freq[i])])),
              Item("summary", StrArr(FallbackSummary))>>)

\* results of the "if not raw:" branch
NoResponseSummary ==
    <<"No AI summary available.", "See deterministic sections.", "Check CI artefacts.">>

no_response_result ==
    JObj(<<Item("root_causes", JArr(<<>>)), Item("summary", StrArr(NoResponseSummary))>>)

(***************************************************************************)
(* Collaborator boundary: call_backend and the three backends              *)
(***************************************************************************)

Backends == {"ollama", "openai", "anthropic"}

\* what the HTTP exchange with the model does: it answers with a text, it
\* does not answer before the timeout, or the transport fails
Answer(t) == [kind |-> "text", text |-> t]
TimedOut == [kind |-> "timeout", text |-> ""]
TransportError == [kind |-> "error", text |-> ""]

\* call_ollama: requests.post(..., timeout=180) and raise_for_status() raise,
\* and nothing catches
call_ollama(outcome) ==
    IF outcome.kind = "text"
    THEN [raised |-> FALSE, text |-> outcome.text]
    ELSE [raised |-> TRUE, text |-> ""]

\* call_openai: every exception is caught and turned into ""
call_openai(outcome) ==
    IF outcome.kind = "text"
    THEN [raised |-> FALSE, text |-> outcome.text]
    ELSE [raised |-> FALSE, text |-> ""]

\* call_anthropic: every exception is caught and turned into ""
call_anthropic(outcome) ==
    IF outcome.kind = "text"
    THEN [raised |-> FALSE, text |-> outcome.text]
    ELSE [raised |-> FALSE, text |-> ""]

\* the names choose_backend_env_cli returns: --backend is one of the three,
\* HYBRID_BACKEND, read when --backend is not given, is any name
BackendNames == Backends \cup {"gemini"}

\* a call_backend that tries the backend again after a timeout or a
\* transport error
AttemptsWithRetry(backend, outcome) ==
    IF backend \notin Backends THEN 0
    ELSE IF outcome.kind = "text" THEN 1 ELSE 2

\* the requests call_backend sends: one by the function of a known backend,
\* whatever comes of it, none for an unknown name
Attempts(backend, outcome) == IF backend \in Backends THEN 1 ELSE 0

call_backend(backend, outcome) ==
    IF backend = "ollama" THEN call_ollama(outcome)
    ELSE IF backend = "openai" THEN call_openai(outcome)
    ELSE IF backend = "anthropic" THEN call_anthropic(outcome)
    ELSE [raised |-> FALSE, text |-> ""]

(***************************************************************************)
(* run: the presentation loop and the artefacts                            *)
(***************************************************************************)

\* max(1, int(round(chars / 3.5))): chars/3.5 = 2*chars/7 is never a tie
estimate_tokens(chars) == Max(1, (4 * chars + 7) \div 14)

\* sum(len(l) + 1 for l in lines)
FullChars(lines) ==
    SumOver([i \in 1..Len(lines) |-> Len(lines[i]) + 1], 1..Len(lines))

\* the loop over obj["root_causes"][:3] (obj is schema-valid here, so each
\* evidence is a non-empty list): e0.get raises when e0 = ev[0] is not a
\* dict, and e0.get("snippet", "")[:160] when the snippet cannot be sliced
PresentRaises(obj) ==
    LET rcs == DictGet(obj, "root_causes").v IN
    \E i \in 1..Min(3, Len(rcs)) :
        LET e0 == DictGet(rcs[i], "evidence").v[1] IN
        \/ e0.t /= "obj"
        \/ /\ DictHas(e0, "snippet")
           /\ DictGet(e0, "snippet").t \notin {"str", "arr"}

(***************************************************************************)
(* json.dumps, for the texts a collaborator answers with                   *)
(***************************************************************************)

RECURSIVE NumStr(_)
\* str(n) for n >= 0
NumStr(n) == IF n < 10 THEN Ch("0123456789", n + 1)
             ELSE NumStr(n \div 10) \o Ch("0123456789", (n % 10) + 1)

RECURSIVE EscapeStr(_)
EscapeStr(s) ==
    IF Len(s) = 0 THEN ""
    ELSE (IF Ch(s, 1) \in {"\"", "\\"} THEN "\\" \o Ch(s, 1) ELSE Ch(s, 1))
         \o EscapeStr(SubSeq(s, 2, Len(s)))

RECURSIVE Dumps(_)
\* json.dumps(j) with its default separators ", " and ": "
Dumps(j) ==
    IF j.t = "null" THEN "null"
    ELSE IF j.t = "bool" THEN (IF j.v THEN "true" ELSE "false")
    ELSE IF j.t = "num" THEN (IF j.v < 0 THEN "-" \o NumStr(0 - j.v) ELSE NumStr(j.v))
    ELSE IF j.t = "str" THEN "\"" \o EscapeStr(j.v) \o "\""
    ELSE IF j.t = "arr"
    THEN "[" \o Join(", ", [i \in 1..Len(j.v) |-> Dumps(j.v[i])]) \o "]"
    ELSE "{" \o Join(", ", [i \in 1..Len(j.v) |->
                               "\"" \o EscapeStr(j.v[i].k) \o "\": " \o Dumps(j.v[i].val)])
         \o "}"

(***************************************************************************)
(* Inputs and bounds                                                       *)
(***************************************************************************)

\* a log has at most MaxLines lines
MaxLines == 3

LongLine ==
    "error: xxxxxxxxxxxxxxxxxxxxxxxxxxxxxxxxxxxxxxxxxxxxxxxxxxxxxxxxxxxxxxxxxxxxxxxxxxxxxxxx"

\* the lines read_lines can return (ANSI sequences already stripped)
LinePool == {"", "error: a", "undefined reference to b", LongLine}

\* every log of at most MaxLines lines over LinePool
Logs == UNION {[1..n -> LinePool] : n \in 0..MaxLines}

\* --cluster-window, --context, --max-sections
Windows == {1, 2}
Contexts == {0, 1}
SectionCaps == {1, 2}
\* --max-chars: nothing fits, exactly "error: a" fits, the default
CharBudgets == {0, 8, 12000}

ArgSets ==
    [cluster_window : Windows, context : Contexts,
     max_sections : SectionCaps, max_chars : CharBudgets]

\* one element of root_causes, fully populated
FullCause ==
    JObj(<<Item("cause", JStr("c")),
           Item("evidence", JArr(<<JObj(<<Item("line", JNum(1)),
                                          Item("snippet", JStr("s"))>>)>>)),
           Item("confidence", JStr("high")),
           Item("next_action", JStr("n"))>>)

ThreeBullets == StrArr(<<"a", "b", "c">>)

ValidResponse ==
    Dumps(JObj(<<Item("root_causes", JArr(<<FullCause>>)), Item("summary", ThreeBullets)>>))

\* an object valid_schema accepts whose first evidence entry is a number
EvidenceNumberResponse ==
    Dumps(JObj(<<Item("root_causes",
                      JArr(<<JObj(<<Item("cause", JStr("c")),
                                    Item("evidence", JArr(<<JNum(1)>>)),
                                    Item("confidence", JStr("high")),
                                    Item("next_action", JStr("n"))>>)>>)),
                 Item("summary", JArr(<<>>))>>))

\* s written 2^k times
RECURSIVE Doubled(_, _)
Doubled(s, k) == IF k = 0 THEN s ELSE LET h == Doubled(s, k - 1) IN h \o h

\* an array of one integer literal of 8192 digits
HugeNumberText == "[" \o Doubled("1", 13) \o "]"

\* the texts the collaborator answers with in a run: nothing, a schema-valid
\* object, a schema-valid object that cannot be presented, text that is no
\* JSON, JSON of the wrong shape, JSON that int() refuses
RunResponses ==
    {"", ValidResponse, EvidenceNumberResponse, "I cannot help", "{\"root_causes\": \"x\"}",
     HugeNumberText}

Outcomes == {Answer(t) : t \in RunResponses} \cup {TimedOut, TransportError}

\* cluster_indices alone: line numbers up to MaxLineNo, windows up to MaxGap
MaxLineNo == 6
MaxGap == 3

\* the strictly increasing list of the members of S
RECURSIVE SortedSeq(_)
SortedSeq(S) ==
    IF S = {} THEN <<>>
    ELSE LET m == CHOOSE m \in S : \A x \in S : m <= x
         IN  <<m>> \o SortedSeq(S \ {m})

\* what find_error_indices can return: strictly increasing line numbers
IndexLists == {SortedSeq(S) : S \in SUBSET (1..MaxLineNo)}

(***************************************************************************)
(* State                                                                   *)
(***************************************************************************)

VARIABLES
    lines,          \* run: the log as read_lines returned it
    args,           \* run: the argparse namespace
    pc,             \* run: "start", "calling", "done" (returned), "raised"
    backend,        \* run: the backend chosen by choose_backend_env_cli
    build_info,     \* run: extract_build_info(lines)
    err_idxs,       \* run: find_error_indices(lines)
    clusters,       \* run: cluster_indices(err_idxs, window)
    sections,       \* run: the sections extract_sections returned
    sent_chars,     \* run: the total_chars extract_sections returned
    categories,     \* run: category -> the sections of that category
    counts,         \* run: category -> number of sections
    prompt_chars,   \* run: len(prompt)
    raw,            \* run: what the exchange with the collaborator did
    calls,          \* run: number of requests sent to a collaborator
    results,        \* run: the result object printed and written
    status,         \* run: the value run returned
    artifacts,      \* run: the write_artifact calls, in order
    indices,        \* cluster_indices: its argument indices
    window,         \* cluster_indices: its argument window
    clustered,      \* cluster_indices: whether it has returned
    grouped,        \* cluster_indices: what it returned
    doc,            \* parse_llm_response: the JSON value the response holds
    text,           \* parse_llm_response: its argument raw
    validated,      \* parse_llm_response: whether it has returned
    parsed,         \* parse_llm_response: the (json_obj, error_msg) it returned
    log_content,    \* analyze_build_log: the log, split at "\n"
    slack_pc,       \* analyze_build_log: "start", "calling", "done", "raised"
    errors,         \* analyze_build_log: find_error_lines_with_context(lines)
    llm_calls,      \* analyze_build_log: number of analyze_with_llm calls made
    analysis,       \* analyze_build_log: the dict it returned
    invs,           \* two runs side by side: of each its log, outdir and step
    files,          \* two runs side by side: the files, path -> data written
    hook_req,       \* github_webhook: the request (event, content type, signature, body)
    hook_pc,        \* github_webhook: "idle", "received", "verified", "summarising",
                    \*   "posting", "responded", "raised"
    hook_status,    \* github_webhook: the status of the response
    hook_effects    \* github_webhook: the requests it sent out, in order

runVars == <<lines, args, pc, backend, build_info, err_idxs, clusters, sections,
             sent_chars, categories, counts, prompt_chars, raw, calls, results, status,
             artifacts>>
clusterVars == <<indices, window, clustered, grouped>>
validatorVars == <<doc, text, validated, parsed>>

slackVars == <<log_content, slack_pc, errors, llm_calls, analysis>>

pairVars == <<invs, files>>

hookVars == <<hook_req, hook_pc, hook_status, hook_effects>>

vars == <<runVars, clusterVars, validatorVars, slackVars, pairVars, hookVars>>

\* no result object / no return value yet
NoResult == [t |-> "none", v |-> 0]
NoStatus == -1
NoOutcome == [kind |-> "none", text |-> ""]

\* a writer that leaves the file empty
ArtifactWithoutData(path, data) == [path |-> path, data |-> <<>>]

Artifact(path, data) == [path |-> path, data |-> data]

RunIdle ==
    /\ pc = "start" /\ backend = "" /\ build_info = <<>> /\ err_idxs = <<>>
    /\ clusters = <<>> /\ sections = <<>> /\ sent_chars = 0 /\ counts = <<>>
    /\ categories = <<>>
    /\ prompt_chars = 0 /\ raw = NoOutcome /\ calls = 0 /\ results = NoResult
    /\ status = NoStatus /\ artifacts = <<>>

ClusterIdle == indices = <<>> /\ window = 0 /\ clustered = FALSE /\ grouped = <<>>

NoParse == [obj |-> JNull, err |-> "not called", raised |-> FALSE]
ValidatorIdle == doc = JNull /\ text = "" /\ validated = FALSE /\ parsed = NoParse

SlackIdle ==
    /\ log_content = <<>> /\ slack_pc = "start" /\ errors = <<>> /\ llm_calls = 0
    /\ analysis = NoResult

PairIdle == invs = <<>> /\ files = <<>>

NoRequest == [event |-> "", content_type |-> "", signature |-> "", body |-> ""]
HookIdle ==
    /\ hook_req = NoRequest /\ hook_pc = "idle" /\ hook_status = 0
    /\ hook_effects = <<>>

NoArgs == [cluster_window |-> 0, context |-> 0, max_sections |-> 0, max_chars |-> 0]

(***************************************************************************)
(* run                                                                     *)
(***************************************************************************)

Init ==
    /\ lines \in Logs
    /\ args \in ArgSets
    /\ RunIdle
    /\ ClusterIdle
    /\ ValidatorIdle
    /\ SlackIdle
    /\ PairIdle
    /\ HookIdle

\* run from its start up to the call of call_backend: either it returns 0
\* because no section was extracted, or the call is made
RunToCall ==
    /\ pc = "start"
    /\ LET info == extract_build_info(lines)
           idxs == find_error_indices(lines)
           cl == cluster_indices(idxs, args.cluster_window)
           ex == extract_sections(lines, cl, args.context, args.max_sections,
                                  args.max_chars)
       IN  /\ build_info' = info
           /\ err_idxs' = idxs
           /\ clusters' = cl
           /\ sections' = ex.sections
           /\ sent_chars' = ex.total_chars
           /\ IF ex.sections = <<>>
              THEN /\ pc' = "done"
                   /\ status' = 0
                   /\ UNCHANGED <<backend, categories, counts, prompt_chars>>
              ELSE /\ categories' = categorise_sections(ex.sections)
                   /\ counts' = CategoryCounts(categorise_sections(ex.sections))
                   /\ prompt_chars' = make_prompt_chars(ex.sections, info)
                   /\ backend' \in BackendNames
                   /\ pc' = "calling"
                   /\ UNCHANGED status
    /\ UNCHANGED <<lines, args, raw, calls, results, artifacts>>
    /\ UNCHANGED <<clusterVars, validatorVars, slackVars, pairVars, hookVars>>

\* meta of run
MetaOf(l, b, info, secs, cnts, pchars) ==
    LET full_chars == FullChars(l)
        saved_chars == Max(0, full_chars - pchars)
    IN  [backend |-> b, full_chars |-> full_chars, prompt_chars |-> pchars,
         saved_chars |-> saved_chars,
         estimated_token_savings |-> estimate_tokens(saved_chars),
         section_count |-> Len(secs), categories |-> cnts,
         build_info |-> info]

Meta == MetaOf(lines, backend, build_info, sections, counts, prompt_chars)

\* run from the return of call_backend to its end
RunFromCall(outcome) ==
    /\ pc = "calling"
    /\ raw' = IF backend \in Backends THEN outcome ELSE NoOutcome
    /\ calls' = calls + Attempts(backend, outcome)
    /\ LET r == call_backend(backend, outcome) IN
       IF r.raised
       THEN /\ pc' = "raised"
            /\ UNCHANGED <<results, status, artifacts>>
       ELSE IF r.text = ""
       THEN /\ results' = no_response_result
            /\ artifacts' = <<Artifact("hybrid_result.json", no_response_result),
                              Artifact("sections.json", sections),
                              Artifact("categories.json", counts)>>
            /\ status' = 1
            /\ pc' = "done"
       ELSE LET res == parse_llm_response(r.text)
                obj == IF res.err /= "" THEN fallback_result(sections)
                       ELSE res.obj
            IN  IF res.raised \/ PresentRaises(obj)
                THEN /\ pc' = "raised"
                     /\ UNCHANGED <<results, status, artifacts>>
                ELSE /\ results' = obj
                     /\ artifacts' = <<Artifact("hybrid_result.json", obj),
                                       Artifact("sections.json", sections),
                                       Artifact("categories.json", counts),
                                       Artifact("meta.json", Meta)>>
                     /\ status' = 0
                     /\ pc' = "done"
    /\ UNCHANGED <<lines, args, backend, build_info, err_idxs, clusters, sections,
                   sent_chars, categories, counts, prompt_chars>>
    /\ UNCHANGED <<clusterVars, validatorVars, slackVars, pairVars, hookVars>>

Collaborate == \E outcome \in Outcomes : RunFromCall(outcome)

Next == RunToCall \/ Collaborate

Spec == Init /\ [][Next]_vars

\* weak fairness of RunToCall, with its enabling condition written out: the
\* action is enabled exactly when pc = "start"
RunProceeds == []<>(pc /= "start") \/ []<><<RunToCall>>_vars

\* run as it is scheduled: it is one thread that goes on to its next
\* statement, and the exchange with the collaborator comes to an end (with an
\* answer, with the timeout of requests.post or of the SDK's HTTP client, or
\* with a transport error)
InitLive ==
    /\ lines \in {l \in Logs : Len(l) <= 1}
    /\ args \in {a \in ArgSets : a.max_sections = 2 /\ a.max_chars = 12000}
    /\ RunIdle
    /\ ClusterIdle
    /\ ValidatorIdle
    /\ SlackIdle
    /\ PairIdle
    /\ HookIdle

SpecLive == InitLive /\ [][Next]_vars /\ RunProceeds /\ WF_vars(Collaborate)

(***************************************************************************)
(* run on logs whose every line is flagged and its own section             *)
(***************************************************************************)

\* the lines of such a log
ManyLines == 4

HeadlinePool == {"error: a", "error: b", "error: c", "fatal: d"}

\* --cluster-window 0 --context 0 and the default caps: one section a line
EachLineArgs ==
    [cluster_window |-> 0, context |-> 0, max_sections |-> 10, max_chars |-> 12000]

InitFallback ==
    /\ lines \in [1..ManyLines -> HeadlinePool]
    /\ args = EachLineArgs
    /\ RunIdle
    /\ ClusterIdle
    /\ ValidatorIdle
    /\ SlackIdle
    /\ PairIdle
    /\ HookIdle

SpecFallback == InitFallback /\ [][Next]_vars

(***************************************************************************)
(* find_error_indices on its own                                           *)
(***************************************************************************)

\* lines no rule matches ("error:" has nothing after the colon), lines one
\* rule matches, a line two rules match, a line only the CI marker test matches
DetectorPool ==
    {"", "warning: b", "error:", "error: a", "ld: cannot find -lfoo",
     "FAILED: build step", "  Fatal: oops  "}

InitDetector ==
    /\ lines \in UNION {[1..n -> DetectorPool] : n \in 0..MaxLines}
    /\ args = NoArgs
    /\ RunIdle
    /\ ClusterIdle
    /\ ValidatorIdle
    /\ SlackIdle
    /\ PairIdle
    /\ HookIdle

Detect ==
    /\ pc = "start"
    /\ err_idxs' = find_error_indices(lines)
    /\ pc' = "detected"
    /\ UNCHANGED <<lines, args, backend, build_info, clusters, sections, sent_chars,
                   categories, counts, prompt_chars, raw, calls, results, status,
                   artifacts>>
    /\ UNCHANGED <<clusterVars, validatorVars, slackVars, pairVars, hookVars>>

NextDetector == Detect

SpecDetector == InitDetector /\ [][NextDetector]_vars

(***************************************************************************)
(* run up to its histogram: categorise_sections on extracted sections      *)
(***************************************************************************)

\* lines for each rule of CATEGORY_RULES, a line two rules match, a flagged
\* line no rule matches, and a line that is not flagged and matches a rule
CategoryPool ==
    {"ld: cannot find -lfoo", "undefined reference to x",
     "error:x no rule to make target y", "fatal: error:x", "error: a",
     "note: see x-lm"}

\* every flagged line a section of its own, and sections with context lines
CategoryArgs ==
    {[cluster_window |-> 0, context |-> 0, max_sections |-> 10, max_chars |-> 12000],
     [cluster_window |-> 1, context |-> 1, max_sections |-> 10, max_chars |-> 12000]}

InitCategoriser ==
    /\ lines \in UNION {[1..n -> CategoryPool] : n \in 0..MaxLines}
    /\ args \in CategoryArgs
    /\ RunIdle
    /\ ClusterIdle
    /\ ValidatorIdle
    /\ SlackIdle
    /\ PairIdle
    /\ HookIdle

Categorise ==
    /\ pc = "start"
    /\ LET idxs == find_error_indices(lines)
           cl == cluster_indices(idxs, args.cluster_window)
           ex == extract_sections(lines, cl, args.context, args.max_sections,
                                  args.max_chars)
       IN  /\ err_idxs' = idxs
           /\ clusters' = cl
           /\ sections' = ex.sections
           /\ sent_chars' = ex.total_chars
           /\ categories' = categorise_sections(ex.sections)
           /\ counts' = CategoryCounts(categorise_sections(ex.sections))
    /\ pc' = "categorised"
    /\ UNCHANGED <<lines, args, backend, build_info, prompt_chars, raw, calls, results,
                   status, artifacts>>
    /\ UNCHANGED <<clusterVars, validatorVars, slackVars, pairVars, hookVars>>

NextCategoriser == Categorise

SpecCategoriser == InitCategoriser /\ [][NextCategoriser]_vars

(***************************************************************************)
(* run up to its sections: extract_sections on detected clusters           *)
(***************************************************************************)

\* a blank line, an indented flagged line and a flagged line
ExtractorPool == {"", "  error: a", "error: b"}

\* --max-chars: nothing fits, one flagged line fits, the default
ExtractorArgs ==
    [cluster_window : {1}, context : Contexts,
     max_sections : SectionCaps, max_chars : {0, 10, 12000}]

InitExtractor ==
    /\ lines \in UNION {[1..n -> ExtractorPool] : n \in 0..MaxLines}
    /\ args \in ExtractorArgs
    /\ RunIdle
    /\ ClusterIdle
    /\ ValidatorIdle
    /\ SlackIdle
    /\ PairIdle
    /\ HookIdle

Extract ==
    /\ pc = "start"
    /\ LET idxs == find_error_indices(lines)
           cl == cluster_indices(idxs, args.cluster_window)
           ex == extract_sections(lines, cl, args.context, args.max_sections,
                                  args.max_chars)
       IN  /\ err_idxs' = idxs
           /\ clusters' = cl
           /\ sections' = ex.sections
           /\ sent_chars' = ex.total_chars
    /\ pc' = "extracted"
    /\ UNCHANGED <<lines, args, backend, build_info, prompt_chars, raw, calls, results,
                   status, artifacts, categories, counts>>
    /\ UNCHANGED <<clusterVars, validatorVars, slackVars, pairVars, hookVars>>

NextExtractor == Extract

SpecExtractor == InitExtractor /\ [][NextExtractor]_vars

(***************************************************************************)
(* cluster_indices on its own                                              *)
(***************************************************************************)

InitCluster ==
    /\ indices \in IndexLists
    /\ window \in 0..MaxGap
    /\ clustered = FALSE
    /\ grouped = <<>>
    /\ lines = <<>>
    /\ args = NoArgs
    /\ RunIdle
    /\ ValidatorIdle
    /\ SlackIdle
    /\ PairIdle
    /\ HookIdle

Cluster ==
    /\ ~clustered
    /\ grouped' = cluster_indices(indices, window)
    /\ clustered' = TRUE
    /\ UNCHANGED <<indices, window>>
    /\ UNCHANGED <<runVars, validatorVars, slackVars, pairVars, hookVars>>

NextCluster == Cluster

SpecCluster == InitCluster /\ [][NextCluster]_vars

(***************************************************************************)
(* parse_llm_response on its own                                           *)
(***************************************************************************)

\* root_causes holds at most MaxCauses elements
MaxCauses == 2

\* a root_causes element without one of its keys
Without(rc, k) == JObj(SelectSeq(rc.v, LAMBDA it : it.k /= k))
\* a root_causes element with another value under one of its keys
With(rc, k, val) == JObj(DictPut(rc.v, k, val))

\* the elements a collaborator puts in root_causes: fully populated; only a
\* cause; null cause, confidence and next_action; no evidence key; evidence
\* empty; evidence a string; not an object
CauseVariants ==
    {FullCause,
     JObj(<<Item("cause", JStr("x"))>>),
     With(With(With(FullCause, "cause", JNull), "confidence", JNull), "next_action", JNull),
     Without(FullCause, "evidence"),
     With(FullCause, "evidence", JArr(<<>>)),
     With(FullCause, "evidence", JStr("e")),
     JStr("x")}

\* the values under "root_causes": arrays of up to MaxCauses elements, a
\* string, null
RootCausesVariants ==
    {JArr(q) : q \in UNION {[1..n -> CauseVariants] : n \in 0..MaxCauses}}
    \cup {JStr("x"), JNull}

SummaryVariants == {JArr(<<>>), ThreeBullets, JStr("s")}

\* a schema-valid object with an opening brace inside a string
BraceDoc ==
    JObj(<<Item("root_causes", JArr(<<>>)),
           Item("summary", JArr(<<JStr("use {")>>))>>)

\* the JSON values a response holds: objects with or without each of the two
\* keys, such an object inside an array, and a bare string
Docs ==
    {JObj(<<Item("root_causes", r), Item("summary", m)>>) :
        r \in RootCausesVariants, m \in SummaryVariants}
    \cup {JObj(<<Item("root_causes", r)>>) : r \in RootCausesVariants}
    \cup {JObj(<<Item("summary", m)>>) : m \in SummaryVariants}
    \cup {JArr(<<JObj(<<Item("root_causes", JArr(<<>>)), Item("summary", JArr(<<>>))>>)>>),
          JStr("x"), BraceDoc}

\* what a collaborator writes around the JSON
Prefixes == {"", " \n", "Sure: "}
Suffixes == {"", "\n", " bye"}

\* the Markdown code fence around the JSON. Its mark is three backquotes, a
\* character no string of this language can hold; "~" stands for it: Strip,
\* StartsWithBracket and BracketScan tell apart only whitespace and the four
\* brackets, and "~" is as little JSON as a backquote is
FenceOpen == "~~~json\n"
FenceClose == "\n~~~"

\* what a collaborator writes before the fence
Commentaries == {"Sure! ", "Here {it} is: ", "See [1]: "}

Fenced(c, d) == c \o FenceOpen \o Dumps(d) \o FenceClose

\* responses that are no rendering of a document
RawTexts == {"", "   ", "I cannot help", "{bad}", "[1, 2", "[]", "7",
             HugeNumberText}

InitValidator ==
    /\ \/ /\ doc \in Docs
          /\ \E pre \in Prefixes, suf \in Suffixes :
                text = pre \o Dumps(doc) \o suf
       \/ /\ doc \in Docs
          /\ \E c \in Commentaries : text = Fenced(c, doc)
       \/ /\ doc = JNull
          /\ text \in RawTexts
    /\ validated = FALSE
    /\ parsed = NoParse
    /\ lines = <<>>
    /\ args = NoArgs
    /\ RunIdle
    /\ ClusterIdle
    /\ SlackIdle
    /\ PairIdle
    /\ HookIdle

Validate ==
    /\ ~validated
    /\ parsed' = parse_llm_response(text)
    /\ validated' = TRUE
    /\ UNCHANGED <<doc, text>>
    /\ UNCHANGED <<runVars, clusterVars, slackVars, pairVars, hookVars>>

NextValidator == Validate

SpecValidator == InitValidator /\ [][NextValidator]_vars

(***************************************************************************)
(* The slackbot's build_analysis: analyze_build_log and what it calls      *)
(***************************************************************************)

\* context_lines of the call in analyze_build_log
ContextLines == 5

\* the entries of errors: a line is flagged when a pattern of ERROR_PATTERNS
\* is found in it as it stands (no strip), ignoring case
find_error_lines_with_context(lns, context_lines) ==
    LET flagged == SelectSeq([i \in 1..Len(lns) |-> i],
                             LAMBDA i : ERROR_PATTERNS(Lower(lns[i])))
    IN  [n \in 1..Len(flagged) |->
            LET i == flagged[n]
                ctx == SubSeq(lns, Max(1, i - context_lines),
                              Min(Len(lns), i + context_lines))
            IN  [line_number |-> i,
                 error_line |-> Strip(lns[i]),
                 context |-> [k \in 1..Len(ctx) |-> Strip(ctx[k])]]]

\* categorize_errors, as the number of errors of each category
categorize_errors(errs) ==
    LET cat == [n \in 1..Len(errs) |-> categorise_section(Lower(errs[n].error_line))]
    IN  [c \in {cat[n] : n \in 1..Len(errs)} |->
            Cardinality({n \in 1..Len(errs) : cat[n] = c})]

AnalysisUnavailable ==
    JObj(<<Item("root_causes", JArr(<<>>)),
           Item("summary", StrArr(<<"Analysis unavailable">>))>>)

\* re.search(r"\{.*\}", content, re.DOTALL).group(): from the first "{" to
\* the last "}" behind it, "" when there is none
BraceSpan(content) ==
    LET a == Find(content, "{")
        closers == {b \in (a + 1)..Len(content) : Ch(content, b) = "}"}
    IN  IF a = 0 \/ closers = {} THEN ""
        ELSE SubSeq(content, a, CHOOSE b \in closers : \A c \in closers : c <= b)

\* analyze_with_llm: whatever goes wrong inside the try gives the
\* "Analysis unavailable" dict; what json.loads returns is returned as it is
analyze_with_llm(outcome) ==
    IF outcome.kind /= "text" \/ outcome.text = "" THEN AnalysisUnavailable
    ELSE LET span == BraceSpan(outcome.text)
             r == json_loads(IF span /= "" THEN span ELSE outcome.text)
         IN  IF r.ok THEN r.val ELSE AnalysisUnavailable

\* the dict analyze_build_log returns when nothing was flagged
NoErrorsAnalysis ==
    JObj(<<Item("root_causes", JArr(<<>>)),
           Item("summary", StrArr(<<"No errors found in build log">>)),
           Item("error_count", JNum(0))>>)

\* the counts of categorize_errors as a JSON object, in a fixed key order
CategoryOrder == <<"linker_missing", "linker_undefined", "cmake_config", "compilation", "other">>
CategoriesJson(cnt) ==
    LET keys == SelectSeq(CategoryOrder, LAMBDA c : c \in DOMAIN cnt)
    IN  JObj([n \in 1..Len(keys) |-> Item(keys[n], JNum(cnt[keys[n]]))])

\* what a log_content.split("\n") is: at least one line
SlackLinePool == LinePool \cup {"error:  "}
SlackLogs == UNION {[1..n -> SlackLinePool] : n \in 1..MaxLines}

\* the contents the model answers with
SlackResponses ==
    {"", ValidResponse, "[]", "null", "I cannot help", "Sure: {\"x\": 1} bye", "{bad}"}
SlackOutcomes == {Answer(t) : t \in SlackResponses} \cup {TimedOut, TransportError}

InitSlack ==
    /\ log_content \in SlackLogs
    /\ slack_pc = "start"
    /\ errors = <<>>
    /\ llm_calls = 0
    /\ analysis = NoResult
    /\ lines = <<>>
    /\ args = NoArgs
    /\ RunIdle
    /\ ClusterIdle
    /\ ValidatorIdle
    /\ PairIdle
    /\ HookIdle

\* analyze_build_log up to the call of analyze_with_llm, or to its return
\* when nothing was flagged (create_focused_prompt only builds the text sent)
SlackToCall ==
    /\ slack_pc = "start"
    /\ LET errs == find_error_lines_with_context(log_content, ContextLines) IN
       /\ errors' = errs
       /\ IF errs = <<>>
          THEN /\ analysis' = NoErrorsAnalysis
               /\ slack_pc' = "done"
               /\ UNCHANGED llm_calls
          ELSE /\ llm_calls' = llm_calls + 1
               /\ slack_pc' = "calling"
               /\ UNCHANGED analysis
    /\ UNCHANGED log_content
    /\ UNCHANGED <<runVars, clusterVars, validatorVars, pairVars, hookVars>>

\* analyze_build_log from the return of analyze_with_llm on: the item
\* assignments raise TypeError when the model's JSON is no object
SlackFromCall(outcome) ==
    /\ slack_pc = "calling"
    /\ LET got == analyze_with_llm(outcome) IN
       IF got.t /= "obj"
       THEN /\ slack_pc' = "raised"
            /\ UNCHANGED analysis
       ELSE /\ analysis' =
                JObj(DictPut(DictPut(got.v, "error_count", JNum(Len(errors))),
                             "categories", CategoriesJson(categorize_errors(errors))))
            /\ slack_pc' = "done"
    /\ UNCHANGED <<log_content, errors, llm_calls>>
    /\ UNCHANGED <<runVars, clusterVars, validatorVars, pairVars, hookVars>>

SlackCollaborate == \E outcome \in SlackOutcomes : SlackFromCall(outcome)

NextSlack == SlackToCall \/ SlackCollaborate

SpecSlack == InitSlack /\ [][NextSlack]_vars

\* analyze_build_log on a log without a flagged line: the explicit result,
\* and no call of the model
SlackZeroFailureExit ==
    (slack_pc /= "start" /\ errors = <<>>) =>
        /\ slack_pc = "done"
        /\ llm_calls = 0
        /\ analysis = NoErrorsAnalysis

\* analyze_build_log lets no exception out
SlackNoUncaughtFault == slack_pc /= "raised"

(***************************************************************************)
(* Two invocations of run side by side, each on its own log                *)
(***************************************************************************)

\* the values argparse gives the options that are not on the command line
DefaultArgs ==
    [cluster_window |-> 8, context |-> 5, max_sections |-> 10, max_chars |-> 12000]

\* the artefacts run writes for log l, in order, when the collaborator's
\* answer is rejected (backend ollama, the default arguments)
ArtifactsOf(l) ==
    LET info == extract_build_info(l)
        cl == cluster_indices(find_error_indices(l), DefaultArgs.cluster_window)
        ex == extract_sections(l, cl, DefaultArgs.context, DefaultArgs.max_sections,
                               DefaultArgs.max_chars)
        cnts == CategoryCounts(categorise_sections(ex.sections))
        pchars == make_prompt_chars(ex.sections, info)
    IN  <<Artifact("hybrid_result.json", fallback_result(ex.sections)),
          Artifact("sections.json", ex.sections),
          Artifact("categories.json", cnts),
          Artifact("meta.json", MetaOf(l, "ollama", info, ex.sections, cnts, pchars))>>

\* logs with a flagged line
PairLogs ==
    {<<"error: a">>, <<"undefined reference to b">>, <<"", "fatal: d">>}

\* --outdir: its default, and a directory given on the command line
DefaultOutdir == ".hybrid_out"
Outdirs == {DefaultOutdir, "out_b"}

ArtifactNames == {"hybrid_result.json", "sections.json", "categories.json", "meta.json"}

\* out_dir / name
PathIn(dir, name) == dir \o "/" \o name

NoFile == [t |-> "absent", v |-> 0]

InitPair ==
    /\ \E l1, l2 \in PairLogs, d1, d2 \in Outdirs :
          /\ l1 /= l2
          /\ invs = <<[log |-> l1, outdir |-> d1, step |-> 0],
                      [log |-> l2, outdir |-> d2, step |-> 0]>>
    /\ files = [f \in {PathIn(d, n) : d \in Outdirs, n \in ArtifactNames} |-> NoFile]
    /\ lines = <<>>
    /\ args = NoArgs
    /\ RunIdle
    /\ ClusterIdle
    /\ ValidatorIdle
    /\ SlackIdle
    /\ HookIdle

\* run of invocation i up to out_dir.mkdir: nothing outside the invocation
\* is read or written
PairAnalyse(i) ==
    /\ invs[i].step = 0
    /\ invs' = [invs EXCEPT ![i].step = 1]
    /\ UNCHANGED files
    /\ UNCHANGED <<runVars, clusterVars, validatorVars, slackVars, hookVars>>

\* the next write_artifact of invocation i
PairWrite(i) ==
    /\ invs[i].step \in 1..4
    /\ LET art == ArtifactsOf(invs[i].log)[invs[i].step] IN
       files' = [files EXCEPT ![PathIn(invs[i].outdir, art.path)] = art.data]
    /\ invs' = [invs EXCEPT ![i].step = invs[i].step + 1]
    /\ UNCHANGED <<runVars, clusterVars, validatorVars, slackVars, hookVars>>

NextPair == \E i \in 1..2 : PairAnalyse(i) \/ PairWrite(i)

SpecPair == InitPair /\ [][NextPair]_vars

(***************************************************************************)
(* The slackbot's route /github/webhook: _verify_signature, github_webhook *)
(***************************************************************************)

\* SLACKBOT_GITHUB_WEBHOOK_SECRET as it is configured, and the secret a
\* stranger guesses
WebhookSecret == "s3cret"
GuessedSecret == "guess"

\* hmac.new(secret, payload, sha256).hexdigest(): the digest is a term that
\* the key and the message determine and that differs when either differs
\* (HMAC-SHA256 without collisions; nobody computes it without the key)
HmacSha256(secret, payload) == "hmac<" \o secret \o "|" \o payload \o ">"

\* str.startswith
StartsWith(s, p) == Len(s) >= Len(p) /\ SubSeq(s, 1, Len(p)) = p

\* the characters above U+007F that the header values of the model hold
NonAscii == {"é"}
IsAscii(s) == \A i \in 1..Len(s) : Ch(s, i) \notin NonAscii

\* "true" or "false" as _verify_signature returns, "raised" when
\* hmac.compare_digest raises TypeError: it compares two str only when both
\* are ASCII
verify_signature(secret, signature, payload) ==
    IF signature = "" THEN "false"
    ELSE IF ~StartsWith(signature, "sha256=") THEN "false"
    ELSE LET computed == "sha256=" \o HmacSha256(secret, payload) IN
         IF ~IsAscii(signature) THEN "raised"
         ELSE IF signature = computed THEN "true"
         ELSE "false"

JsonType == "application/json"
FormType == "application/x-www-form-urlencoded"

\* the JSON a webhook delivers: a pull request opened, one closed, an event
\* without its pull_request, and text that is no JSON
OpenedBody == "{\"action\": \"opened\", \"pull_request\": {\"url\": \"u\", \"number\": 7}}"
ClosedBody == "{\"action\": \"closed\", \"pull_request\": {\"number\": 7}}"
NoPullRequestBody == "{\"action\": \"opened\"}"
BrokenBody == "{\"action\""
PayloadTexts == {OpenedBody, ClosedBody, NoPullRequestBody, BrokenBody}

\* the raw bodies: the JSON itself, or a form with the JSON in its payload
\* field (or without that field)
BodiesOf(ct) ==
    IF ct = FormType THEN {"payload=" \o t : t \in PayloadTexts} \cup {"x=1"}
    ELSE PayloadTexts

\* X-Hub-Signature-256 of a request with body b: missing, GitHub's, one made
\* with another secret, GitHub's for another body, a digest without its
\* prefix, and one with a character that is not ASCII
SignaturesFor(b) ==
    {"",
     "sha256=" \o HmacSha256(WebhookSecret, b),
     "sha256=" \o HmacSha256(GuessedSecret, b),
     "sha256=" \o HmacSha256(WebhookSecret, ClosedBody),
     HmacSha256(WebhookSecret, b),
     "sha256=é"}

HookEvents == {"ping", "pull_request", "push"}

HookRequests ==
    UNION {UNION {{[event |-> e, content_type |-> ct, signature |-> sg, body |-> b] :
                      e \in HookEvents, sg \in SignaturesFor(b)} :
                  b \in BodiesOf(ct)} :
           ct \in {JsonType, FormType}}

\* payload_data: parse_qs(raw_data)['payload'][0], then unquote, for a form;
\* the bodies of the model hold none of & ; % +, which is all that the two
\* decode
payload_data(req) ==
    IF Contains(req.content_type, FormType) /\ StartsWith(req.body, "payload=")
    THEN SubSeq(req.body, Len("payload=") + 1, Len(req.body))
    ELSE ""

\* request.get_json(force=True, silent=True) or {}: the body was read at the
\* top of the handler with get_data(cache=False); reread tells whether the
\* stream gives it a second time (a body that is no JSON, or an empty
\* object, gives {})
get_json_or_empty(req, reread) ==
    LET r == json_loads(req.body) IN
    IF reread /\ r.ok THEN r.val ELSE JObj(<<>>)

\* payload.get(k, ""), for a payload that is a dict
GetOr(payload, k) == IF DictHas(payload, k) THEN DictGet(payload, k) ELSE JStr("")

ProcessedActions == {"opened", "reopened", "synchronize", "ready_for_review"}

InitHook ==
    /\ hook_req \in HookRequests
    /\ hook_pc = "received"
    /\ hook_status = 0
    /\ hook_effects = <<>>
    /\ lines = <<>>
    /\ args = NoArgs
    /\ RunIdle
    /\ ClusterIdle
    /\ ValidatorIdle
    /\ SlackIdle
    /\ PairIdle

\* the response is returned
Respond(code) == hook_pc' = "responded" /\ hook_status' = code

\* an exception leaves the handler: Flask answers 500
HandlerRaises == hook_pc' = "raised" /\ hook_status' = 500

\* github_webhook from its start to the end of the signature check: the
\* ping event is answered here, every other event is verified
HookVerify ==
    /\ hook_pc = "received"
    /\ LET v == verify_signature(WebhookSecret, hook_req.signature, hook_req.body)
           pd == payload_data(hook_req)
       IN  IF hook_req.event = "ping"
           THEN IF hook_req.signature /= "" /\ v = "raised" THEN HandlerRaises
                ELSE IF hook_req.signature /= "" /\ v = "false" THEN Respond(401)
                ELSE IF pd /= "" /\ (~json_loads(pd).ok \/ json_loads(pd).val.t /= "obj")
                THEN HandlerRaises
                ELSE Respond(200)
           ELSE IF v = "raised" THEN HandlerRaises
           ELSE IF v = "false" THEN Respond(401)
           ELSE hook_pc' = "verified" /\ UNCHANGED hook_status
    /\ UNCHANGED <<hook_req, hook_effects>>
    /\ UNCHANGED <<runVars, clusterVars, validatorVars, slackVars, pairVars>>

\* github_webhook after the signature check up to the call of
\* summarize_pull_request: other events and other actions are ignored, the
\* pull request is read from the payload and its files fetched from GitHub
HookPullRequest(reread) ==
    /\ hook_pc = "verified"
    /\ LET pd == payload_data(hook_req)
           r == json_loads(pd)
           payload == IF pd /= "" THEN r.val ELSE get_json_or_empty(hook_req, reread)
       IN  IF hook_req.event /= "pull_request"
           THEN Respond(200) /\ UNCHANGED hook_effects
           ELSE IF pd /= "" /\ r.raised
           THEN HandlerRaises /\ UNCHANGED hook_effects
           ELSE IF pd /= "" /\ ~r.ok
           THEN Respond(400) /\ UNCHANGED hook_effects
           ELSE IF payload.t /= "obj"
           THEN HandlerRaises /\ UNCHANGED hook_effects
           ELSE IF GetOr(payload, "action").v \notin ProcessedActions
           THEN Respond(200) /\ UNCHANGED hook_effects
           ELSE IF ~DictHas(payload, "pull_request")
                   \/ DictGet(payload, "pull_request").t /= "obj"
           THEN Respond(500) /\ UNCHANGED hook_effects
           ELSE /\ hook_pc' = "summarising"
                /\ hook_effects' =
                      IF DictHas(DictGet(payload, "pull_request"), "url")
                      THEN Append(hook_effects, "github")
                      ELSE hook_effects
                /\ UNCHANGED hook_status
    /\ UNCHANGED hook_req
    /\ UNCHANGED <<runVars, clusterVars, validatorVars, slackVars, pairVars>>

\* summarize_pull_request: the request to the model is sent; it answers, or
\* the client raises and the handler answers 500
HookSummarise(answered) ==
    /\ hook_pc = "summarising"
    /\ hook_effects' = Append(hook_effects, "llm")
    /\ IF answered THEN hook_pc' = "posting" /\ UNCHANGED hook_status
       ELSE Respond(500)
    /\ UNCHANGED hook_req
    /\ UNCHANGED <<runVars, clusterVars, validatorVars, slackVars, pairVars>>

\* post_pr_summary and the response: the message is sent to Slack; posted or
\* not, the handler answers 200
HookPost ==
    /\ hook_pc = "posting"
    /\ hook_effects' = Append(hook_effects, "slack")
    /\ Respond(200)
    /\ UNCHANGED hook_req
    /\ UNCHANGED <<runVars, clusterVars, validatorVars, slackVars, pairVars>>

NextHook ==
    \/ HookVerify
    \/ \E reread \in BOOLEAN : HookPullRequest(reread)
    \/ \E answered \in BOOLEAN : HookSummarise(answered)
    \/ HookPost

SpecHook == InitHook /\ [][NextHook]_vars

(***************************************************************************)
(* Clusterer properties                                                    *)
(***************************************************************************)

RECURSIVE Flatten(_)
Flatten(qs) == IF qs = <<>> THEN <<>> ELSE Head(qs) \o Flatten(SubSeq(qs, 2, Len(qs)))

\* the cluster of grouped that holds line number x
ClusterOf(x) == CHOOSE k \in 1..Len(grouped) : \E j \in 1..Len(grouped[k]) : grouped[k][j] = x

SameCluster(a, b) == ClusterOf(a) = ClusterOf(b)

\* every two consecutive flagged lines from position i to position j are at
\* most window apart
Chained(i, j) == \A k \in i..(j - 1) : indices[k + 1] - indices[k] <= window

\* C3 (as the code has it): the clusters partition the flagged lines in
\* order; two flagged lines a < b at distance <= window are in the same
\* cluster; and a < b are in the same cluster exactly when every two
\* consecutive flagged lines from a to b are at most window apart, so that a
\* distance > window splits a and b only when they are adjacent in the
\* Detector output (or some adjacent pair between them is that far apart).
C3_WindowRuleAdjacent ==
    clustered =>
        /\ Flatten(grouped) = indices
        /\ \A k \in 1..Len(grouped) : grouped[k] /= <<>>
        /\ \A i, j \in 1..Len(indices) :
              i < j =>
                /\ indices[j] - indices[i] <= window => SameCluster(indices[i], indices[j])
                /\ SameCluster(indices[i], indices[j]) <=> Chained(i, j)

\* a chain: two flagged lines further apart than window that share a cluster
C3_Witness ==
    /\ clustered
    /\ window > 0
    /\ \E i, j \in 1..Len(indices) :
          /\ i < j
          /\ indices[j] - indices[i] > window
          /\ SameCluster(indices[i], indices[j])

\* C3 as stated: any two flagged lines a < b, adjacent or not, are in the
\* same cluster when b - a <= window and in different clusters when
\* b - a > window.
C3_WindowRuleAnyPair ==
    clustered =>
        \A i, j \in 1..Len(indices) :
            i < j =>
              /\ indices[j] - indices[i] <= window => SameCluster(indices[i], indices[j])
              /\ indices[j] - indices[i] > window => ~SameCluster(indices[i], indices[j])

\* C21: for every strictly increasing index list and every window,
\* cluster_indices returns non-empty clusters whose concatenation in order is
\* the input list, in which consecutive members of a cluster differ by at
\* most window, and in which the last member of a cluster and the first
\* member of the next differ by more than window.
C21_ClusterStructure ==
    clustered =>
        /\ \A k \in 1..Len(grouped) : grouped[k] /= <<>>
        /\ Flatten(grouped) = indices
        /\ \A k \in 1..Len(grouped) :
              \A j \in 1..(Len(grouped[k]) - 1) :
                  grouped[k][j + 1] - grouped[k][j] <= window
        /\ \A k \in 1..(Len(grouped) - 1) :
              grouped[k + 1][1] - Last(grouped[k]) > window

\* several clusters, one of them with several members, and a gap of exactly
\* window inside a cluster
C21_Witness ==
    /\ clustered
    /\ Len(grouped) >= 2
    /\ \E k \in 1..Len(grouped) :
          \E j \in 1..(Len(grouped[k]) - 1) :
              grouped[k][j + 1] - grouped[k][j] = window

(***************************************************************************)
(* Properties of run                                                       *)
(***************************************************************************)

\* run is past extract_sections
Extracted == pc /= "start"

\* the characters of the context lines of a section, joined by newlines
SectionChars(sec) == Len(Join("\n", sec.lines))

\* summed over the emitted sections
EmittedChars ==
    SumOver([i \in 1..Len(sections) |-> SectionChars(sections[i])], 1..Len(sections))

\* C1: the context lines of all sections extract_sections emitted, each
\* section's lines joined by newlines and summed over the sections, never
\* exceed max_chars.
C1_ExtractorBudget == Extracted => EmittedChars <= args.max_chars

\* a bound on the prompt that the three caps alone determine: the fixed text,
\* and for each of the max_sections sections its frame (with the largest
\* section and line numbers), the blank context lines that a stripped count
\* leaves out, and a headline within the budget; plus the budgeted characters
\* with the indent and newline of their lines
PromptBound(a) ==
    make_prompt_chars(<<>>, <<>>)
    + a.max_sections
        * (SectionEntryChars([line_number |-> MaxLines, headline |-> "", lines |-> <<>>],
                             a.max_sections)
           + 3 + 3 * (2 * a.context + 1) + a.max_chars)
    + 4 * a.max_chars

\* C2: for fixed ctx, max_sections and max_chars the length of the prompt
\* built from the extracted sections stays within a bound that depends on
\* neither the number of log lines nor the length of any log line.
C2_PromptBounded == pc \in {"calling", "done", "raised"} => prompt_chars <= PromptBound(args)

\* the collaborator call failed or gave nothing
CollaboratorFailed ==
    \/ raw.kind \in {"timeout", "error"}
    \/ raw.kind = "text" /\ raw.text = ""

\* what run leaves behind when the Validator rejects a response
RejectedResults == fallback_result(sections)
RejectedArtifacts ==
    <<Artifact("hybrid_result.json", RejectedResults), Artifact("sections.json", sections),
      Artifact("categories.json", counts), Artifact("meta.json", Meta)>>

\* C4: whenever the single collaborator call times out, fails in transport or
\* returns empty text, the invocation ends as it does when the Validator
\* rejects a response: with the Fallback Synthesizer's result computed from
\* the extracted sections, the same completion status and the same artifacts.
C4_FailureRoutesToFallback ==
    CollaboratorFailed =>
        /\ pc = "done"
        /\ results = RejectedResults
        /\ status = 0
        /\ artifacts = RejectedArtifacts

\* a structurally valid AnalysisResult: root_causes list and summary list
IsAnalysisResult(r) ==
    /\ r.t = "obj"
    /\ DictHas(r, "root_causes") /\ DictGet(r, "root_causes").t = "arr"
    /\ DictHas(r, "summary") /\ DictGet(r, "summary").t = "arr"

ArtifactPaths == [i \in 1..Len(artifacts) |-> artifacts[i].path]

\* C5: for every readable log and every collaborator behaviour (valid,
\* invalid or empty text, transport error, timeout), no exception crosses the
\* boundary of the invocation, and the invocation that consulted the
\* collaborator returns a structurally valid AnalysisResult together with its
\* artifacts (result, sections, category histogram, run metadata).
C5_NoUncaughtFault ==
    /\ pc /= "raised"
    /\ (pc = "done" /\ calls > 0) =>
          /\ IsAnalysisResult(results)
          /\ ArtifactPaths =
                <<"hybrid_result.json", "sections.json", "categories.json", "meta.json">>

\* C6: run returns a non-zero status only when the Detector flagged no line;
\* every run with at least one flagged line that gets a valid, an invalid or
\* an empty response completes with status 0.
C6_StatusZeroWhenFlagged ==
    /\ (pc = "done" /\ status /= 0) => err_idxs = <<>>
    /\ (pc \in {"done", "raised"} /\ raw.kind = "text") => (pc = "done" /\ status = 0)

\* the explicit result of a log without failures
NoErrorsResult ==
    JObj(<<Item("root_causes", JArr(<<>>)),
           Item("summary", StrArr(<<"No errors found in build log">>))>>)

\* C7: when the Detector flags no line of the log there are zero clusters and
\* zero sections, the pipeline terminates with the explicit result
\* {root_causes: [], summary: ["No errors found in build log"]}, and the
\* collaborator is never invoked.
C7_ZeroFailureEarlyExit ==
    (Extracted /\ err_idxs = <<>>) =>
        /\ pc = "done"
        /\ clusters = <<>>
        /\ sections = <<>>
        /\ calls = 0
        /\ results = NoErrorsResult

\* the log's only flagged lines are a compiler line "error: <message>" and a
\* line "undefined reference to <symbol>", further apart than the window and
\* than the context, and both caps leave room for two sections
ScenarioA ==
    /\ Len(err_idxs) = 2
    /\ \E i, j \in 1..2 :
          /\ i /= j
          /\ LitAt(lines[err_idxs[i]], 1, "error: ")
          /\ Len(lines[err_idxs[i]]) > Len("error: ")
          /\ LitAt(lines[err_idxs[j]], 1, "undefined reference to ")
          /\ Len(lines[err_idxs[j]]) > Len("undefined reference to ")
    /\ err_idxs[2] - err_idxs[1] > args.cluster_window
    /\ err_idxs[2] - err_idxs[1] > args.context
    /\ args.max_sections >= 2
    /\ args.max_chars >= FullChars(lines)

\* C8: such a log yields exactly 2 clusters, 2 sections and the category
\* histogram {compilation: 1, linker_undefined: 1}.
C8_ScenarioA ==
    (Extracted /\ ScenarioA) =>
        /\ Len(clusters) = 2
        /\ Len(sections) = 2
        /\ counts = ("compilation" :> 1 @@ "linker_undefined" :> 1)

\* a run of such a log, past the categoriser
C8_Witness == pc = "calling" /\ ScenarioA

(***************************************************************************)
(* Validator properties                                                    *)
(***************************************************************************)

\* the value j is an object with key k
HasKey(j, k) == j.t = "obj" /\ \E n \in 1..Len(j.v) : j.v[n].k = k

\* the value of key k of object j (its keys are distinct in Docs)
ValueOf(j, k) == j.v[CHOOSE n \in 1..Len(j.v) : j.v[n].k = k].val

IsArray(j) == j.t = "arr"

\* an element of root_causes that is an object with cause, confidence,
\* next_action and a non-empty evidence array
CauseShape(rc) ==
    /\ HasKey(rc, "cause") /\ HasKey(rc, "confidence") /\ HasKey(rc, "next_action")
    /\ HasKey(rc, "evidence")
    /\ IsArray(ValueOf(rc, "evidence"))
    /\ ValueOf(rc, "evidence").v /= <<>>

\* a top-level object whose root_causes and summary are arrays and whose
\* every root_causes element has the shape above
GateShape(j) ==
    /\ HasKey(j, "root_causes") /\ IsArray(ValueOf(j, "root_causes"))
    /\ HasKey(j, "summary") /\ IsArray(ValueOf(j, "summary"))
    /\ \A n \in 1..Len(ValueOf(j, "root_causes").v) :
          CauseShape(ValueOf(j, "root_causes").v[n])

\* the response is the JSON value alone, whitespace around it at most
BareJson == Strip(text) = Dumps(doc)

WrongTypeText == "{\"root_causes\": \"x\"}"
MissingKeysText == "{\"root_causes\": [{\"cause\": \"x\"}]}"

\* C9: parse_llm_response succeeds only with a top-level object whose
\* root_causes is an array, whose summary is an array and whose every
\* root_causes element is an object with cause, confidence, next_action and a
\* non-empty evidence array; it rejects {"root_causes": "x"} and
\* {"root_causes": [{"cause": "x"}]} with a schema failure; and a response
\* that is such an object and nothing else is accepted and returned as it is.
C9_SchemaGate ==
    validated =>
        /\ parsed.err = "" => GateShape(parsed.obj)
        /\ text \in {WrongTypeText, MissingKeysText} => parsed.err = "schema validation failed"
        /\ (BareJson /\ GateShape(doc)) => (parsed.err = "" /\ parsed.obj = doc)

\* a fully populated object was accepted
C9_Witness ==
    /\ validated
    /\ BareJson
    /\ GateShape(doc)
    /\ ValueOf(doc, "root_causes").v /= <<>>
    /\ parsed.err = ""

\* the reasons parse_llm_response tags a failure with
Reasons == {"empty response", "no json block found", "json decode error",
            "schema validation failed"}

\* C11: for every input text parse_llm_response returns without raising, and
\* returns either a schema-valid object with an empty reason or the empty
\* object with one of the four reasons.
C11_TotalAndTagged ==
    validated =>
        /\ ~parsed.raised
        /\ \/ parsed.err = "" /\ valid_schema(parsed.obj)
           \/ parsed.err \in Reasons /\ parsed.obj = JObj(<<>>)

\* no string of the JSON value holds a bracket
RECURSIVE NoBracketInStrings(_)
NoBracketInStrings(j) ==
    LET plain(str) == \A b \in {"{", "[", "}", "]"} : Find(str, b) = 0 IN
    CASE j.t = "str" -> plain(j.v)
      [] j.t = "arr" -> \A i \in 1..Len(j.v) : NoBracketInStrings(j.v[i])
      [] j.t = "obj" -> \A i \in 1..Len(j.v) :
                            plain(j.v[i].k) /\ NoBracketInStrings(j.v[i].val)
      [] OTHER -> TRUE

\* the response is commentary c, then the document inside a code fence
FencedAfter(c) == text = Fenced(c, doc) /\ valid_schema(doc)

\* the scan extracted the document and validation succeeded with it
ExtractedDocument ==
    /\ extract_json_block(Strip(text)) = Dumps(doc)
    /\ parsed.err = ""
    /\ parsed.obj = doc

\* C12: when the response is a schema-valid object inside a code fence and
\* preceded by commentary, the bracket scan extracts exactly that object and
\* validation succeeds with it as the result.
C12_FencedObjectExtracted ==
    validated => \A c \in Commentaries : FencedAfter(c) => ExtractedDocument

\* a populated object was extracted from inside its fence
C12_Witness ==
    /\ validated
    /\ FencedAfter("Sure! ")
    /\ ValueOf(doc, "root_causes").v /= <<>>
    /\ ExtractedDocument

\* what the scan does achieve: the object is extracted when its strings hold
\* no bracket and the commentary holds no opening brace
FencedPlainObjectExtracted ==
    validated =>
        \A c \in Commentaries :
            (FencedAfter(c) /\ Find(c, "{") = 0 /\ NoBracketInStrings(doc))
                => ExtractedDocument

\* the responses of a run that are not empty and fail parsing or validation
InvalidTexts == {"I cannot help", "{\"root_causes\": \"x\"}", HugeNumberText}

RejectedResponse == raw.kind = "text" /\ raw.text \in InvalidTexts

\* how often a headline occurs among the emitted sections
HeadlineCount(h) == Cardinality({i \in 1..Len(sections) : sections[i].headline = h})

\* the result is the Fallback Synthesizer's: the disclaimer summary, at most
\* 3 root causes, their causes the headlines of distinct sections, no headline
\* left out that occurs more often than one that was taken
FallbackShaped(r) ==
    LET rcs == ValueOf(r, "root_causes").v
        cause(i) == ValueOf(rcs[i], "cause").v
        taken == {cause(i) : i \in 1..Len(rcs)}
    IN  /\ ValueOf(r, "summary") = StrArr(FallbackSummary)
        /\ Len(rcs) <= 3
        /\ \E f \in [1..Len(rcs) -> 1..Len(sections)] :
              /\ \A i, j \in 1..Len(rcs) : i /= j => f[i] /= f[j]
              /\ \A i \in 1..Len(rcs) : cause(i) = sections[f[i]].headline
        /\ \A i, j \in 1..Len(rcs) : i /= j => cause(i) /= cause(j)
        /\ \A k \in 1..Len(sections) :
              sections[k].headline \notin taken =>
                  /\ Len(rcs) = 3
                  /\ \A h \in taken : HeadlineCount(sections[k].headline) <= HeadlineCount(h)

\* C13: whenever the collaborator returns non-empty text that fails parsing or
\* schema validation, the invocation ends with the Fallback Synthesizer's
\* result: the fixed three-line disclaimer as summary and at most 3 root
\* causes, each cause the headline of a distinct emitted section, taken from
\* the most frequent distinct headlines.
C13_InvalidTextFallsBack ==
    RejectedResponse => (pc = "done" /\ FallbackShaped(results))

\* prose was answered and the fallback named two sections
C13_Witness ==
    /\ raw.kind = "text"
    /\ raw.text = "I cannot help"
    /\ pc = "done"
    /\ FallbackShaped(results)
    /\ Len(ValueOf(results, "root_causes").v) = 2

\* what holds of the responses json.loads parses or rejects as JSON
DecodedInvalidTextFallsBack ==
    (RejectedResponse /\ raw.text /= HugeNumberText)
        => (pc = "done" /\ FallbackShaped(results))

\* every section of the run categorised as other
AllOther == \A i \in 1..Len(sections) : SectionCategory(sections[i]) = "other"

\* at most 3 root causes, each with evidence, confidence low and a next
\* action, and the Validator's schema check accepts the result
FallbackValid(r) ==
    LET rcs == ValueOf(r, "root_causes").v IN
    /\ Len(rcs) <= 3
    /\ \A i \in 1..Len(rcs) :
          /\ IsArray(ValueOf(rcs[i], "evidence"))
          /\ Len(ValueOf(rcs[i], "evidence").v) >= 1
          /\ ValueOf(rcs[i], "confidence") = JStr("low")
          /\ HasKey(rcs[i], "next_action")
          /\ ValueOf(rcs[i], "next_action").t = "str"
          /\ ValueOf(rcs[i], "next_action").v /= ""
    /\ GateShape(r)
    /\ valid_schema(r)

\* the invocation ended with the Fallback Synthesizer's result
FellBack == pc = "done" /\ RejectedResponse

\* C14: for every non-empty section list, one whose sections all categorise
\* as other included, the fallback result has at most 3 root causes, each with
\* at least one evidence entry, confidence low and a next_action, and
\* valid_schema is true of the whole result.
C14_FallbackValid ==
    (FellBack /\ sections /= <<>>) => FallbackValid(results)

\* the fallback ran on four sections with four headlines, all of them other,
\* and kept three; for one of these its search found no line, so that the
\* evidence is the headline
C14_Witness ==
    /\ FellBack
    /\ Len(sections) = 4
    /\ Cardinality({sections[i].headline : i \in 1..4}) = 4
    /\ AllOther
    /\ Len(ValueOf(results, "root_causes").v) = 3
    /\ FallbackValid(results)
    /\ \E i \in 1..3 : ~FallbackHint(sections[i].headline)

\* evidence entry e names a line of the log
NamesLogLine(e) ==
    /\ HasKey(e, "line")
    /\ ValueOf(e, "line").t = "num"
    /\ ValueOf(e, "line").v \in 1..Len(lines)

\* evidence entry e of the fallback names the line its snippet was cut from
NamesSnippetLine(e) ==
    /\ NamesLogLine(e)
    /\ ValueOf(e, "snippet") = JStr(Prefix(Strip(lines[ValueOf(e, "line").v]), 200))

\* C15: in every result the invocation returns, validated response or
\* fallback, every root cause has an evidence entry whose line is a line
\* number of the log (1 <= line <= number of log lines), and in the fallback
\* that entry's line is the log position of the line its snippet was taken
\* from.
C15_EvidenceInLog ==
    (pc = "done" /\ calls > 0) =>
        \A i \in 1..Len(ValueOf(results, "root_causes").v) :
            LET ev == ValueOf(ValueOf(results, "root_causes").v[i], "evidence").v IN
            \E n \in 1..Len(ev) :
                IF FellBack THEN NamesSnippetLine(ev[n]) ELSE NamesLogLine(ev[n])

\* a fallback whose evidence does name the snippet's line
C15_Witness ==
    /\ FellBack
    /\ ValueOf(results, "root_causes").v /= <<>>
    /\ C15_EvidenceInLog

\* what holds without context lines: the first line of a section is then its
\* headline's line, and the fallback's evidence names the snippet's line
EvidenceInLogWithoutContext ==
    (FellBack /\ args.context = 0) => C15_EvidenceInLog

\* the invocation is over
Ended == pc \in {"done", "raised"}

CallTimedOut == raw.kind = "timeout"

\* the invocation returned, with a result if it had sections to analyse
ReturnedResult == pc = "done" /\ (sections /= <<>> => results /= NoResult)

\* C17: every invocation eventually terminates with a result even if the
\* collaborator never answers: for every backend the call ends with the
\* timeout, counts as failed, and the Fallback Synthesizer's result follows.
C17_NoIndefiniteBlocking ==
    /\ <>ReturnedResult
    /\ CallTimedOut ~> (pc = "done" /\ results = RejectedResults)

\* what the timeout of the ollama call leads to: the exception leaves run
OllamaTimeoutRaises ==
    (CallTimedOut /\ backend = "ollama") => (pc = "raised" /\ results = NoResult)

\* what the timeout of the openai and anthropic calls leads to: the invocation
\* returns, with the result of an empty response
SdkTimeoutReturns ==
    (CallTimedOut /\ backend \in {"openai", "anthropic"})
        ~> (pc = "done" /\ results = no_response_result)

\* invocation i has returned
PairDone(i) == invs[i].step = 5

\* the files in the outdir of invocation i are the artefacts of its own log
OwnArtifacts(i) ==
    \A k \in 1..4 :
        LET art == ArtifactsOf(invs[i].log)[k] IN
        files[PathIn(invs[i].outdir, art.path)] = art.data

\* C18: under any interleaving of the steps of two invocations running
\* concurrently on different logs, neither overwrites what the other wrote:
\* the artefacts each leaves behind (result, sections, category histogram,
\* run metadata) are all the ones computed from its own log.
C18_IndependentInvocations ==
    (PairDone(1) /\ PairDone(2)) => (OwnArtifacts(1) /\ OwnArtifacts(2))

\* what holds: invocations with different output directories do not meet
SeparateOutdirsIndependent ==
    (PairDone(1) /\ PairDone(2) /\ invs[1].outdir /= invs[2].outdir)
        => (OwnArtifacts(1) /\ OwnArtifacts(2))

\* both invocations wrote to the default directory, and what it holds in
\* the end is a mixture: neither's own four artefacts
MixedArtifacts ==
    /\ PairDone(1) /\ PairDone(2)
    /\ invs[1].outdir = DefaultOutdir /\ invs[2].outdir = DefaultOutdir
    /\ ~OwnArtifacts(1) /\ ~OwnArtifacts(2)

\* the lines of DetectorPool that match a rule of match_error
MatchingLines ==
    {"error: a", "ld: cannot find -lfoo", "FAILED: build step", "  Fatal: oops  "}

\* C19: for every log, find_error_indices returns a strictly increasing list
\* of line numbers, each in 1..len(lines), that holds number i exactly when
\* line i matches a rule; a line contributes at most one entry however many
\* rules it matches.
C19_DetectorShape ==
    pc = "detected" =>
        /\ \A k \in 1..(Len(err_idxs) - 1) : err_idxs[k] < err_idxs[k + 1]
        /\ \A k \in 1..Len(err_idxs) : err_idxs[k] \in 1..Len(lines)
        /\ \A i \in 1..Len(lines) :
              (\E k \in 1..Len(err_idxs) : err_idxs[k] = i) <=> lines[i] \in MatchingLines
        /\ \A i \in 1..Len(lines) :
              Cardinality({k \in 1..Len(err_idxs) : err_idxs[k] = i}) <= 1

\* a line that two rules match stands between an unmatched and a matched
\* line, and the detector has run
C19_Witness ==
    /\ pc = "detected"
    /\ lines = <<"warning: b", "ld: cannot find -lfoo", "error: a">>
    /\ err_idxs = <<2, 3>>

\* the rules of CATEGORY_RULES, in their order
RuleOrder == <<"linker_missing", "linker_undefined", "cmake_config", "compilation">>

\* the rules that match each line of CategoryPool
LineRules(l) ==
    CASE l = "ld: cannot find -lfoo" -> {"linker_missing"}
      [] l = "note: see x-lm" -> {"linker_missing"}
      [] l = "undefined reference to x" -> {"linker_undefined"}
      [] l = "error:x no rule to make target y" -> {"cmake_config", "compilation"}
      [] l = "fatal: error:x" -> {"compilation"}
      [] OTHER -> {}

\* the first rule, in order, that matches a line of the section; other when
\* none does
ExpectedCategory(sec) ==
    LET matching == UNION {LineRules(sec.lines[n]) : n \in 1..Len(sec.lines)}
        hits == {r \in 1..Len(RuleOrder) : RuleOrder[r] \in matching}
    IN  IF hits = {} THEN "other"
        ELSE RuleOrder[CHOOSE r \in hits : \A q \in hits : r <= q]

\* how often section sec stands in the bucket of category cat
TimesIn(cat, sec) ==
    IF cat \in DOMAIN categories
    THEN Cardinality({n \in 1..Len(categories[cat]) : categories[cat][n] = sec})
    ELSE 0

\* how often section sec stands in sections
TimesExtracted(sec) == Cardinality({n \in 1..Len(sections) : sections[n] = sec})

\* the sum of the histogram
RECURSIVE SumCounts(_)
SumCounts(cats) ==
    IF cats = {} THEN 0
    ELSE LET c == CHOOSE x \in cats : TRUE IN counts[c] + SumCounts(cats \ {c})

\* C20: every section receives exactly one category, namely that of the
\* first rule that matches its concatenated context lines in the order
\* linker_missing, linker_undefined, cmake_config, compilation, and other when
\* none matches; the category of a section depends on that section alone; and
\* the counts of the histogram sum to the number of sections.
C20_Categoriser ==
    pc = "categorised" =>
        /\ \A n \in 1..Len(sections) :
              \A cat \in DOMAIN categories \cup {ExpectedCategory(sections[n])} :
                  TimesIn(cat, sections[n]) =
                      IF cat = ExpectedCategory(sections[n])
                      THEN TimesExtracted(sections[n]) ELSE 0
        /\ \A cat \in DOMAIN categories :
              /\ cat \in DOMAIN counts
              /\ counts[cat] = Len(categories[cat])
        /\ DOMAIN counts = DOMAIN categories
        /\ SumCounts(DOMAIN counts) = Len(sections)

\* three sections of three categories; the one that two rules match went to
\* the earlier rule
C20_Witness ==
    /\ pc = "categorised"
    /\ lines = <<"error:x no rule to make target y", "error: a", "fatal: error:x">>
    /\ Len(sections) = 3
    /\ counts = ("cmake_config" :> 1 @@ "other" :> 1 @@ "compilation" :> 1)

\* a section whose context line decides its category
ContextLineDecides ==
    /\ pc = "categorised"
    /\ \E n \in 1..Len(sections) :
          /\ sections[n].headline = "fatal: error:x"
          /\ ExpectedCategory(sections[n]) = "linker_missing"

\* an element of root_causes with a null or missing cause, confidence or
\* next_action, or an evidence value that is not a non-empty array
NullOrMissing(rc, k) == ~HasKey(rc, k) \/ ValueOf(rc, k).t = "null"
BadCause(rc) ==
    \/ NullOrMissing(rc, "cause")
    \/ NullOrMissing(rc, "confidence")
    \/ NullOrMissing(rc, "next_action")
    \/ ~HasKey(rc, "evidence")
    \/ ~IsArray(ValueOf(rc, "evidence"))
    \/ ValueOf(rc, "evidence").v = <<>>

HasBadCause(j) ==
    /\ HasKey(j, "root_causes") /\ IsArray(ValueOf(j, "root_causes"))
    /\ \E n \in 1..Len(ValueOf(j, "root_causes").v) : BadCause(ValueOf(j, "root_causes").v[n])

\* C10: a response is rejected with a validation failure whenever an element
\* of its root_causes has a null or missing cause, confidence or next_action,
\* or an evidence value that is not a non-empty array.
C10_NonNullRule ==
    (validated /\ BareJson /\ doc.t = "obj" /\ HasBadCause(doc)) =>
        parsed.err = "schema validation failed"

(***************************************************************************)
(* Section Extractor properties                                            *)
(***************************************************************************)

\* the clusters the extractor may attempt: the first max_sections ones
Retained == Min(Len(clusters), args.max_sections)

\* the context slice of a cluster: [min(c) - ctx, max(c) + ctx] clipped to the
\* log
ContextLo(c) == Max(1, c[1] - args.context)
ContextHi(c) == Min(Len(lines), Last(c) + args.context)
ContextOf(c) == [i \in 1..(ContextHi(c) - ContextLo(c) + 1) |-> lines[ContextLo(c) + i - 1]]

\* the characters of a list of context lines, as a text of lines; with its
\* leading and trailing whitespace removed when stripped
TextChars(ls, stripped) ==
    IF stripped THEN Len(Strip(Join("\n", ls))) ELSE Len(Join("\n", ls))

RECURSIVE BudgetPolicy(_, _, _, _)
\* the budget policy from cluster k on, with the context lines committed so
\* far and their running total: in full when the full text fits what remains
\* of max_chars, else the first half of the lines when that fits, else stop
BudgetPolicy(k, committed, total, stripped) ==
    IF k > Retained THEN committed
    ELSE LET full == ContextOf(clusters[k])
             half == SubSeq(full, 1, Max(1, Len(full) \div 2))
         IN  IF total + TextChars(full, stripped) <= args.max_chars
             THEN BudgetPolicy(k + 1, Append(committed, full),
                               total + TextChars(full, stripped), stripped)
             ELSE IF total + TextChars(half, FALSE) <= args.max_chars
             THEN BudgetPolicy(k + 1, Append(committed, half),
                               total + TextChars(half, FALSE), stripped)
             ELSE committed

\* the context lines of the emitted sections, in order
EmittedLines == [i \in 1..Len(sections) |-> sections[i].lines]

\* C22: the clusters are processed in order with a running committed total;
\* a section is committed in full when its full text fits the remaining
\* budget, otherwise as the first half of its context lines when that fits,
\* and otherwise extraction stops: no later cluster is emitted and the
\* sections committed before are kept.
C22_BudgetPolicyOrder == Extracted => EmittedLines = BudgetPolicy(1, <<>>, 0, FALSE)

\* the budget stopped extraction after a section had been committed
C22_Witness ==
    /\ Extracted
    /\ sections /= <<>>
    /\ Len(sections) < Retained

\* the same order of full, half and stop holds when the full text is measured
\* without its leading and trailing whitespace
BudgetPolicyOrderStripped == Extracted => EmittedLines = BudgetPolicy(1, <<>>, 0, TRUE)

\* the first flagged line of the cluster a section was made from
HeadLineOf(i) == clusters[i][1]

\* section i is made from cluster i: its line_number is the first flagged
\* line of the cluster and its lines are the context slice of the cluster, or
\* the first half of that slice, and never empty
MadeFromCluster(i) ==
    /\ sections[i].line_number = HeadLineOf(i)
    /\ sections[i].lines /= <<>>
    /\ \E n \in 1..Len(ContextOf(clusters[i])) :
          sections[i].lines = SubSeq(ContextOf(clusters[i]), 1, n)

\* C23 (as the code has it): the emitted sections correspond one-to-one and
\* in order to a prefix of the cluster list of length at most max_sections;
\* each section's line_number is the first flagged line of its cluster, its
\* lines list is never empty, and its headline is the text of that line
\* without its leading and trailing whitespace.
C23_SectionsFollowClusters ==
    Extracted =>
        /\ Len(sections) <= Retained
        /\ \A i \in 1..Len(sections) :
              /\ MadeFromCluster(i)
              /\ sections[i].headline = Strip(lines[HeadLineOf(i)])

\* more clusters than max_sections, every retained one emitted, one of them
\* headed by an indented line
C23_Witness ==
    /\ Extracted
    /\ Len(clusters) > args.max_sections
    /\ Len(sections) = args.max_sections
    /\ \E i \in 1..Len(sections) : sections[i].headline /= lines[HeadLineOf(i)]

\* C23 as stated: the headline is the text of the first flagged line of the
\* cluster.
C23_HeadlineIsLineText ==
    Extracted =>
        /\ Len(sections) <= Retained
        /\ \A i \in 1..Len(sections) :
              /\ MadeFromCluster(i)
              /\ sections[i].headline = lines[HeadLineOf(i)]

\* the log line that heads section i is among the lines of the section: the
\* section's lines start at the clipped lower end of the cluster's context
\* and reach the line numbered line_number, whose text is the headline
HoldsHeadline(i) ==
    LET at == sections[i].line_number - ContextLo(clusters[i]) + 1 IN
    /\ at \in 1..Len(sections[i].lines)
    /\ sections[i].lines[at] = lines[sections[i].line_number]
    /\ Strip(sections[i].lines[at]) = sections[i].headline

\* section i was committed as the half-length version
HalfLength(i) == Len(sections[i].lines) < Len(ContextOf(clusters[i]))

\* C27: every emitted section, the half-length version included, holds among
\* its lines the flagged line whose number and text are the section's
\* line_number and headline.
C27_HeadlineInSection == Extracted => \A i \in 1..Len(sections) : HoldsHeadline(i)

\* a half-length section
C27_Witness == Extracted /\ \E i \in 1..Len(sections) : HalfLength(i)

\* every section committed in full holds its headline line
FullSectionHoldsHeadline ==
    Extracted => \A i \in 1..Len(sections) : ~HalfLength(i) => HoldsHeadline(i)

\* the log lines section i holds: from the clipped lower end of its cluster's
\* context, as many lines as the section has
SectionLo(i) == ContextLo(clusters[i])
SectionHi(i) == ContextLo(clusters[i]) + Len(sections[i].lines) - 1

\* the line ranges of the sections are in increasing order and share no line
DisjointSections ==
    \A i, j \in 1..Len(sections) : i < j => SectionHi(i) < SectionLo(j)

\* C28: for any window and ctx no log line appears in the lines of two
\* different emitted sections, and the sections' line ranges are in
\* increasing order.
C28_NoSharedContext == Extracted => DisjointSections

\* two sections made from two clusters
C28_Witness == Extracted /\ Len(sections) >= 2

\* sections share no line when the window is at least twice the context
DisjointWhenWindowCoversContext ==
    (Extracted /\ args.cluster_window >= 2 * args.context) => DisjointSections

(***************************************************************************)
(* Validator properties: the block handed to the parser                    *)
(***************************************************************************)

\* the positions of the opening brackets of s
Openers(s) == {i \in 1..Len(s) : Ch(s, i) \in {"{", "["}}

\* the first occurrence of either opening bracket, 0 when s has none
FirstOpener(s) ==
    IF Openers(s) = {} THEN 0
    ELSE CHOOSE i \in Openers(s) : \A j \in Openers(s) : i <= j

\* the nesting depth after position b, counted from position a on
Depth(s, a, b) ==
    Cardinality({i \in a..b : Ch(s, i) \in {"{", "["}})
        - Cardinality({i \in a..b : Ch(s, i) \in {"}", "]"}})

\* the block that starts at the opening bracket at position a and ends at
\* the bracket that balances it; empty when nothing balances it
BalancedBlock(s, a) ==
    LET ends == {b \in a..Len(s) : Depth(s, a, b) = 0} IN
    IF a = 0 \/ ends = {} THEN ""
    ELSE SubSeq(s, a, CHOOSE b \in ends : \A c \in ends : b <= c)

\* the response has commentary before its first bracket
LeadingCommentary == ~StartsWithBracket(Strip(text)) /\ Openers(Strip(text)) /= {}

\* C24: when the response text does not start with { or [, the block handed
\* to the parser starts at the first occurrence of either { or [ in the text,
\* whichever comes first, and ends at the bracket that balances it.
C24_BlockFromFirstBracket ==
    (validated /\ LeadingCommentary) =>
        extract_json_block(Strip(text)) = BalancedBlock(Strip(text), FirstOpener(Strip(text)))

\* commentary, then a JSON array that holds an object
C24_Witness ==
    /\ validated
    /\ LeadingCommentary
    /\ doc.t = "arr"
    /\ text = "Sure: " \o Dumps(doc)

\* what the scan does: the block starts at the first {, and at the first [
\* only when the text holds no { at all
BlockFromFirstBrace ==
    (validated /\ LeadingCommentary) =>
        LET s == Strip(text)
            a == IF Find(s, "{") /= 0 THEN Find(s, "{") ELSE Find(s, "[")
        IN  extract_json_block(s) = BalancedBlock(s, a)

\* the response is the schema-valid object doc between commentary pre and suf
Between(pre, suf) ==
    /\ doc.t = "obj"
    /\ valid_schema(doc)
    /\ text = pre \o Dumps(doc) \o suf

\* validation succeeded and returned the document
ReturnedDocument == ~parsed.raised /\ parsed.err = "" /\ parsed.obj = doc

\* C25: for every schema-valid JSON object J and all commentary texts P and S
\* without bracket characters, each possibly empty, the Validator applied to
\* P followed by J followed by S succeeds and returns J.
C25_ToleratesCommentary ==
    validated =>
        \A pre \in Prefixes, suf \in Suffixes : Between(pre, suf) => ReturnedDocument

\* a populated object returned from between two commentaries
C25_Witness ==
    /\ validated
    /\ Between("Sure: ", " bye")
    /\ ValueOf(doc, "root_causes").v /= <<>>
    /\ ReturnedDocument

\* what the Validator tolerates: commentary before an object whose strings
\* hold no bracket, with anything after it, and whitespace around any object
ToleratesLeadingCommentary ==
    validated =>
        \A pre \in Prefixes, suf \in Suffixes :
            (/\ Between(pre, suf)
             /\ \/ Strip(pre) /= "" /\ NoBracketInStrings(doc)
                \/ Strip(pre) = "" /\ Strip(suf) = "")
                => ReturnedDocument

\* commentary after an object that nothing precedes fails the parser
TrailingCommentaryRejected ==
    validated =>
        \A pre \in Prefixes, suf \in Suffixes :
            (Between(pre, suf) /\ Strip(pre) = "" /\ Strip(suf) /= "")
                => parsed.err = "json decode error"

\* a string of the document holds a bracket
BracketInStrings == ~NoBracketInStrings(doc)

\* C29: for every schema-valid JSON object J whose strings may hold the
\* characters {, }, [ or ], and every non-empty bracket-free leading
\* commentary P, extract_json_block applied to P followed by J returns
\* exactly J, so validation succeeds.
C29_BracketsInStrings ==
    validated =>
        \A pre \in Prefixes \ {""} :
            Between(pre, "") =>
                /\ extract_json_block(text) = Dumps(doc)
                /\ ReturnedDocument

\* the scan counts the brackets inside strings: after commentary, an object
\* with an opening brace in a string is never found
BraceInStringLosesBlock ==
    (validated /\ Between("Sure: ", "") /\ BracketInStrings) =>
        /\ extract_json_block(text) = ""
        /\ parsed.err = "no json block found"

(***************************************************************************)
(* Frame of the collaborator call                                          *)
(***************************************************************************)

\* the data written under the artefact name, here in the state after a step
ReportedNext(name) ==
    {artifacts'[i].data : i \in {j \in 1..Len(artifacts') : artifacts'[j].path = name}}

\* the step from the call to the end of run that reports a result
ReportingStep == pc = "calling" /\ pc' = "done"

\* C26: the section list and the category histogram an invocation reports
\* are the ones computed before the call, whatever the collaborator's
\* outcome (valid, invalid, empty, failed): the step that follows the call,
\* the fallback included, leaves sections and counts as they were and writes
\* exactly them to sections.json and categories.json.
C26_SectionsFrozen ==
    [][ReportingStep =>
          /\ sections' = sections
          /\ counts' = counts
          /\ ReportedNext("sections.json") = {sections}
          /\ ReportedNext("categories.json") = {counts}]_vars

\* the fallback has answered for several sections and they are reported
C26_Witness ==
    /\ FellBack
    /\ results = fallback_result(sections)
    /\ Len(sections) >= 2
    /\ \E i \in 1..Len(artifacts) :
          artifacts[i].path = "sections.json" /\ artifacts[i].data = sections

(***************************************************************************)
(* Properties of the webhook                                               *)
(***************************************************************************)

\* the X-Hub-Signature-256 header is the HMAC-SHA256 of the raw body under
\* the configured secret
ValidSignature ==
    hook_req.signature = "sha256=" \o HmacSha256(WebhookSecret, hook_req.body)

\* a request for an event other than ping is in the handler or answered
OtherThanPing == hook_pc /= "idle" /\ hook_req.event /= "ping"

HookAnswered == hook_pc \in {"responded", "raised"}

\* C30: for every webhook request whose event is not ping, no summarisation
\* call to the LLM and no Slack post (no request at all) goes out unless the
\* X-Hub-Signature-256 header is the HMAC-SHA256 of the raw body under the
\* configured secret; a request with a missing or mismatching signature is
\* answered 401 with no other effect.
C30_SignatureGate ==
    OtherThanPing =>
        /\ hook_effects /= <<>> => ValidSignature
        /\ (HookAnswered /\ ~ValidSignature) =>
              hook_status = 401 /\ hook_effects = <<>>

\* a signed pull request event was summarised and posted
C30_Witness ==
    /\ OtherThanPing
    /\ ValidSignature
    /\ hook_effects = <<"github", "llm", "slack">>
    /\ hook_pc = "responded" /\ hook_status = 200

\* the gate itself: nothing is sent out for a request that is not signed
\* with the secret, whatever its event
NothingSentUnsigned == hook_effects /= <<>> => ValidSignature

\* every missing or mismatching ASCII signature is answered 401
AsciiMismatchAnswered401 ==
    (OtherThanPing /\ HookAnswered /\ ~ValidSignature /\ IsAscii(hook_req.signature)) =>
        hook_status = 401 /\ hook_effects = <<>>

\* a signature with a character that is not ASCII is answered 500
NonAsciiSignatureAnswered500 ==
    (HookAnswered /\ StartsWith(hook_req.signature, "sha256=")
        /\ ~IsAscii(hook_req.signature)) =>
        hook_pc = "raised" /\ hook_status = 500

====
